---- MODULE Spec2Model ----
(***************************************************************************)
(* Model of GitQlient's RevisionsCache (src/src/cache/RevisionsCache.cpp)  *)
(* and of the Reference Set (src/src/cache/References.cpp).                *)
(*                                                                         *)
(* Commit records live on a heap and are addressed by pointers; the        *)
(* position index (mCommits), the identifier index (mCommitsMap) and the   *)
(* reference side-list (mReferences) hold pointers into that heap.         *)
(* Pointer 0 is nullptr.  Strings are sequences of characters, so that     *)
(* QString::startsWith is a real prefix test.                              *)
(***************************************************************************)
EXTENDS Integers, Sequences, FiniteSets, TLC

VARIABLES
    mCacheLocked,           \* bool mCacheLocked
    mCommits,               \* QVector<CommitInfo *>: sequence of pointers, row r is mCommits[r + 1]
    mCommitsMap,            \* QHash<QString, CommitInfo *>: function, DOMAIN = the keys
    mRevisionFilesMap,      \* QHash<QPair<QString, QString>, RevisionFiles>
    mReferences,            \* QVector<CommitInfo *>: the reference side-list
    mLocalBranchDistances,  \* QMap<QString, LocalBranchDistances>
    mLanes,                 \* Lanes: the lane engine state
    mDirNames,              \* QVector<QString>: the directory name pool
    mFileNames,             \* QVector<QString>: the file name pool
    mUntrackedfiles,        \* QVector<QString>
    heap,                   \* the CommitInfo objects made by new: sequence of cells
    mMutex,                 \* QMutex mMutex: the thread that holds it, or NoThread
    pc,                     \* for each thread, the call it is in the middle of
    fault,                  \* "none", or the undefined behaviour that stopped the program
    nOps,                   \* number of mutating calls made so far
    last                    \* the last call: its name, the arguments and the value it returned

cacheVars == <<mCacheLocked, mCommits, mCommitsMap, mRevisionFilesMap, mReferences,
               mLocalBranchDistances, mLanes, mDirNames, mFileNames, mUntrackedfiles, heap>>

vars == <<mCacheLocked, mCommits, mCommitsMap, mRevisionFilesMap, mReferences,
          mLocalBranchDistances, mLanes, mDirNames, mFileNames, mUntrackedfiles, heap,
          mMutex, pc, fault, nOps, last>>

threadVars == <<mMutex, pc>>

-----------------------------------------------------------------------------
(* Bounds *)

MaxOps == 5         \* mutating calls in one behaviour
MaxElements == 1    \* largest numElementsToStore given to beginCacheConfig
MaxOrderIdx == 2    \* largest position hint given to insertCommitInfo

-----------------------------------------------------------------------------
(* Identifiers and strings *)

ZERO_SHA == <<"0", "0">>
EmptyString == <<>>

CommitShas == {<<"1", "1">>, <<"1", "2">>, <<"2", "1">>}

startsWith(s, prefix) ==
    /\ Len(prefix) <= Len(s)
    /\ SubSeq(s, 1, Len(prefix)) = prefix

nullptr == 0

-----------------------------------------------------------------------------
(* Function helpers for QHash / QMap *)

EmptyMap == <<>>

MapInsert(m, k, v) == [x \in (DOMAIN m) \cup {k} |-> IF x = k THEN v ELSE m[x]]

MapRemove(m, k) == [x \in (DOMAIN m) \ {k} |-> m[x]]

MapValue(m, k, default) == IF k \in DOMAIN m THEN m[k] ELSE default

RemoveAll(list, value) == SelectSeq(list, LAMBDA x : x # value)

SeqContains(list, value) == \E i \in 1..Len(list) : list[i] = value

\* QVector::indexOf: the first index holding value, -1 when there is none
IndexOf(list, value) ==
    IF SeqContains(list, value)
    THEN (CHOOSE i \in 1..Len(list) : list[i] = value /\ \A j \in 1..(i - 1) : list[j] # value) - 1
    ELSE -1

\* QVector::insert(i, value), 0-based i <= size
VecInsert(list, i, value) == SubSeq(list, 1, i) \o <<value>> \o SubSeq(list, i + 1, Len(list))

-----------------------------------------------------------------------------
(* Reference Set: References.cpp.  QMap<Type, QStringList>, a function     *)
(* whose domain is the set of kinds that were ever touched.                *)

RefTypes == {"Tag", "LocalBranch", "RemoteBranches"}

NoReferences == EmptyMap

getReferences(refs, type) == MapValue(refs, type, <<>>)

addReference(refs, type, value) == MapInsert(refs, type, Append(getReferences(refs, type), value))

removeReference(refs, type, value) == MapInsert(refs, type, RemoveAll(getReferences(refs, type), value))

-----------------------------------------------------------------------------
(* Commit Record: CommitInfo (its source is not among the files; modelled  *)
(* from the data model of the specification).                              *)

CommitInfo(sha, parents, author, date, log) ==
    [sha |-> sha, parents |-> parents, author |-> author, date |-> date, log |-> log,
     refs |-> NoReferences, lanes |-> <<>>]

\* CommitInfo(): the empty record returned by the read operations
DefaultCommitInfo == CommitInfo(EmptyString, <<>>, EmptyString, 0, EmptyString)

parentsCount(c) == Len(c.parents)

\* parent(idx): the idx-th parent, an empty string when there is none
parent(c, idx) == IF idx < Len(c.parents) THEN c.parents[idx + 1] ELSE EmptyString

setLanes(c, lanes) == [c EXCEPT !.lanes = lanes]

\* addReferences(refs): the record's reference set becomes refs
addReferences(c, refs) == [c EXCEPT !.refs = refs]

\* operator==: structural equality of two records
CommitInfoEquals(c1, c2) == c1 = c2

-----------------------------------------------------------------------------
(* Lane Engine: Lanes (its source is not among the files; modelled from    *)
(* the contract of section 4.3 of the specification).  Lane i of the       *)
(* engine is typeVec[i + 1] / nextShaVec[i + 1].                            *)

EmptyLanes == [typeVec |-> <<>>, nextShaVec |-> <<>>, activeLane |-> 0]

\* clear(): drops the lanes
LanesClear(L) == [L EXCEPT !.typeVec = <<>>, !.nextShaVec = <<>>]

LanesInRange(L, i) == i >= 0 /\ i < Len(L.typeVec)

LanesSetType(L, i, t) == IF LanesInRange(L, i) THEN [L EXCEPT !.typeVec[i + 1] = t] ELSE L

LanesType(L, i) == IF LanesInRange(L, i) THEN L.typeVec[i + 1] ELSE "EMPTY"

\* findNextSha(next, pos): first lane >= pos that waits for next, else -1
findNextSha(L, next, pos) ==
    LET hits == {i \in pos..(Len(L.nextShaVec) - 1) : L.nextShaVec[i + 1] = next}
    IN IF hits = {} THEN -1 ELSE CHOOSE i \in hits : \A j \in hits : i <= j

\* add(type, next, pos): reuse the first empty lane >= pos, else append one
LanesAddIdx(L, pos) ==
    LET free == {i \in pos..(Len(L.typeVec) - 1) : L.typeVec[i + 1] = "EMPTY"}
    IN IF free = {} THEN Len(L.typeVec) ELSE CHOOSE i \in free : \A j \in free : i <= j

LanesAdd(L, type, next, pos) ==
    LET idx == LanesAddIdx(L, pos)
    IN IF idx = Len(L.typeVec)
       THEN [L EXCEPT !.typeVec = Append(@, type), !.nextShaVec = Append(@, next)]
       ELSE [L EXCEPT !.typeVec[idx + 1] = type, !.nextShaVec[idx + 1] = next]

LanesInit(expectedSha) == LanesAdd(EmptyLanes, "BRANCH", expectedSha, 0)

LanesIsFork(L, sha) ==
    LET pos == findNextSha(L, sha, 0)
    IN pos # -1 /\ findNextSha(L, sha, pos + 1) # -1

LanesIsDiscontinuity(L, sha) == L.activeLane # findNextSha(L, sha, 0)

LanesChangeActiveLane(L, sha) ==
    LET Activate(L1, idx) ==
            IF idx # -1
            THEN [LanesSetType(L1, idx, "ACTIVE") EXCEPT !.activeLane = idx]
            ELSE [LanesAdd(L1, "BRANCH", sha, L1.activeLane) EXCEPT
                     !.activeLane = LanesAddIdx(L1, L1.activeLane)]
        Retire(L1) == Activate(L1, findNextSha(L1, sha, 0))
    IN Retire(LanesSetType(L, L.activeLane,
                           IF LanesType(L, L.activeLane) = "INITIAL" THEN "EMPTY" ELSE "NOT_ACTIVE"))

LanesSetFork(L, sha) ==
    LET tails == [L EXCEPT !.typeVec = [i \in 1..Len(L.typeVec) |->
                      IF L.nextShaVec[i] = sha THEN "TAIL" ELSE L.typeVec[i]]]
    IN LanesSetType(tails, L.activeLane, "MERGE_FORK")

RECURSIVE LanesSetMergeFrom(_, _, _)
LanesSetMergeFrom(L, parents, k) ==
    IF k > Len(parents) THEN L
    ELSE LET Join(idx) ==
                 IF idx # -1
                 THEN LanesSetType(L, idx, IF LanesType(L, idx) = "ACTIVE" THEN "JOIN" ELSE LanesType(L, idx))
                 ELSE LanesAdd(L, "HEAD", parents[k], L.activeLane + 1)
         IN LanesSetMergeFrom(Join(findNextSha(L, parents[k], 0)), parents, k + 1)

LanesSetMerge(L, parents) == LanesSetMergeFrom(LanesSetType(L, L.activeLane, "MERGE_FORK"), parents, 2)

LanesSetInitial(L) ==
    IF LanesType(L, L.activeLane) = "MERGE_FORK" THEN L ELSE LanesSetType(L, L.activeLane, "INITIAL")

getLanes(L) == L.typeVec

LanesNextParent(L, sha) ==
    IF LanesInRange(L, L.activeLane) THEN [L EXCEPT !.nextShaVec[L.activeLane + 1] = sha] ELSE L

LanesAfterMerge(L) ==
    [L EXCEPT !.typeVec = [i \in 1..Len(L.typeVec) |->
        IF L.typeVec[i] \in {"HEAD", "JOIN"} THEN "NOT_ACTIVE"
        ELSE IF L.typeVec[i] = "MERGE_FORK" THEN "ACTIVE" ELSE L.typeVec[i]]]

LanesAfterFork(L) ==
    [L EXCEPT !.typeVec = [i \in 1..Len(L.typeVec) |->
                  IF L.typeVec[i] = "TAIL" THEN "EMPTY"
                  ELSE IF L.typeVec[i] = "MERGE_FORK" THEN "ACTIVE" ELSE L.typeVec[i]],
              !.nextShaVec = [i \in 1..Len(L.nextShaVec) |->
                  IF L.typeVec[i] = "TAIL" THEN EmptyString ELSE L.nextShaVec[i]]]

LanesIsBranch(L) == LanesType(L, L.activeLane) = "BRANCH"

LanesAfterBranch(L) == LanesSetType(L, L.activeLane, "ACTIVE")

-----------------------------------------------------------------------------
(* calculateLanes / resetLanes: RevisionsCache.cpp.  The result is the     *)
(* snapshot stored in the record and the advanced engine state.            *)

resetLanes(L, c, isFork) ==
    LET nextSha == IF parentsCount(c) = 0 THEN EmptyString ELSE parent(c, 0)
        Merged(L1) == IF parentsCount(c) > 1 THEN LanesAfterMerge(L1) ELSE L1
        Forked(L2) == IF isFork THEN LanesAfterFork(L2) ELSE L2
        Branched(L3) == IF LanesIsBranch(L3) THEN LanesAfterBranch(L3) ELSE L3
    IN Branched(Forked(Merged(LanesNextParent(L, nextSha))))

\* the calls of calculateLanes that come before the snapshot
markLanes(L, c, isFork) ==
    LET Changed(L0) ==
            IF LanesIsDiscontinuity(L0, c.sha) THEN LanesChangeActiveLane(L0, c.sha) ELSE L0
        Forked(L1) == IF isFork THEN LanesSetFork(L1, c.sha) ELSE L1
        Merged(L2) == IF parentsCount(c) > 1 THEN LanesSetMerge(L2, c.parents) ELSE L2
        Initial(L3) == IF parentsCount(c) = 0 THEN LanesSetInitial(L3) ELSE L3
    IN Initial(Merged(Forked(Changed(L))))

\* the snapshot, and the calls of resetLanes that come after it
snapshotLanes(L, c, isFork) == [lanes |-> getLanes(L), engine |-> resetLanes(L, c, isFork)]

calculateLanes(L, c) ==
    LET Calculate(isFork) == snapshotLanes(markLanes(L, c, isFork), c, isFork)
    IN Calculate(LanesIsFork(L, c.sha))

-----------------------------------------------------------------------------
(* File-Change Record: RevisionFiles (its source is not among the files;   *)
(* modelled from the data model of the specification).  A path is a        *)
(* sequence of characters; a status is a set of flags.                     *)

RevisionFiles ==
    [mFiles |-> <<>>, status |-> <<>>, mergeParent |-> <<>>, extStatus |-> <<>>,
     onlyModified |-> TRUE]

\* the flag a status letter of a diff line stands for
StatusOfChar(ch) ==
    IF ch = "M" THEN "MODIFIED"
    ELSE IF ch = "A" THEN "NEW"
    ELSE IF ch = "D" THEN "DELETED"
    ELSE IF ch = "U" THEN "CONFLICT"
    ELSE "UNKNOWN"

rfSetStatus(rf, flag) ==
    [rf EXCEPT !.status = Append(@, {flag}),
               !.onlyModified = @ /\ flag = "MODIFIED"]

rfAppendMergeParent(rf, parNum) == [rf EXCEPT !.mergeParent = Append(@, parNum)]

\* appendExtStatus: the annotation of the entry whose status was set last
rfAppendExtStatus(rf, info) ==
    LET n == Len(rf.status)
    IN [rf EXCEPT !.extStatus = [i \in 1..n |->
            IF i = n THEN info ELSE IF i <= Len(rf.extStatus) THEN rf.extStatus[i] ELSE <<>>]]

rfSetOnlyModified(rf, b) == [rf EXCEPT !.onlyModified = b]

rfAppendStatus(rf, i, flag) == [rf EXCEPT !.status[i + 1] = @ \cup {flag}]

rfCount(rf) == Len(rf.mFiles)

-----------------------------------------------------------------------------
(* String functions used by the Diff-Summary Parser *)

Digits == <<"0", "1", "2", "3", "4", "5", "6", "7", "8", "9">>

IsDigit(ch) == \E d \in 1..10 : Digits[d] = ch

DigitValue(ch) == (CHOOSE d \in 1..10 : Digits[d] = ch) - 1

RECURSIVE ToIntFrom(_, _, _)
ToIntFrom(str, k, acc) ==
    IF k > Len(str) THEN acc ELSE ToIntFrom(str, k + 1, acc * 10 + DigitValue(str[k]))

\* QString::toInt: 0 when the string is not a number
toInt(str) ==
    IF str # <<>> /\ \A k \in 1..Len(str) : IsDigit(str[k]) THEN ToIntFrom(str, 1, 0) ELSE 0

RECURSIVE number(_)
\* QString::number of a non-negative int
number(n) == IF n < 10 THEN <<Digits[n + 1]>> ELSE number(n \div 10) \o <<Digits[(n % 10) + 1]>>

RECURSIVE SplitFrom(_, _, _, _)
SplitFrom(str, sep, k, cur) ==
    IF k > Len(str) THEN (IF cur = <<>> THEN <<>> ELSE <<cur>>)
    ELSE IF str[k] = sep
         THEN (IF cur = <<>> THEN <<>> ELSE <<cur>>) \o SplitFrom(str, sep, k + 1, <<>>)
         ELSE SplitFrom(str, sep, k + 1, Append(cur, str[k]))

\* QString::split(sep, QString::SkipEmptyParts)
split(str, sep) == SplitFrom(str, sep, 1, <<>>)

\* QString::lastIndexOf(ch), -1 when ch does not occur
lastIndexOf(str, ch) ==
    LET hits == {k \in 1..Len(str) : str[k] = ch}
    IN IF hits = {} THEN -1 ELSE (CHOOSE k \in hits : \A j \in hits : j <= k) - 1

left(str, n) == SubSeq(str, 1, n)

mid(str, n) == SubSeq(str, n + 1, Len(str))

-----------------------------------------------------------------------------
(* Diff-Summary Parser.  The parser state st holds the name pools, the     *)
(* FileNamesLoader fl and the RevisionFiles objects fl.rf can point to     *)
(* (objs, addressed by a small id; id 0 is nullptr).  A line of the diff   *)
(* text is [colons, rest]: the number of leading colons and the text from  *)
(* column 97 on (status, tab, paths).                                      *)

FileNamesLoader == [rf |-> 0, rfDirs |-> <<>>, rfNames |-> <<>>, files |-> <<>>]

PoolIndex(pool, str) == IndexOf(pool, str)

appendFileName(st, name) ==
    LET Pooled(dr, nm, dIt, nIt) ==
            [st EXCEPT !.dirs = IF dIt = -1 THEN Append(@, dr) ELSE @,
                       !.names = IF nIt = -1 THEN Append(@, nm) ELSE @,
                       !.fl.rfDirs = Append(@, IF dIt = -1 THEN Len(st.dirs) ELSE dIt),
                       !.fl.rfNames = Append(@, IF nIt = -1 THEN Len(st.names) ELSE nIt),
                       !.fl.files = Append(@, name)]
        Looked(dr, nm) == Pooled(dr, nm, PoolIndex(st.dirs, dr), PoolIndex(st.names, nm))
        Cut(idx) == Looked(left(name, idx), mid(name, idx))
    IN Cut(lastIndexOf(name, "/") + 1)

RECURSIVE FlushFrom(_, _, _)
FlushFrom(st, files, i) ==
    IF i > Len(st.fl.rfNames) THEN files
    ELSE LET path == st.dirs[st.fl.rfDirs[i] + 1] \o st.names[st.fl.rfNames[i] + 1]
         IN FlushFrom(st, IF SeqContains(files, path) THEN files ELSE Append(files, path), i + 1)

flushFileNames(st) ==
    IF st.fl.rf = 0 THEN st
    ELSE [st EXCEPT !.objs[st.fl.rf].mFiles = FlushFrom(st, @, 1),
                    !.fl.rfNames = <<>>, !.fl.rfDirs = <<>>, !.fl.rf = 0]

\* if (fl.rf != &rf) { flushFileNames(fl); fl.rf = &rf; }
Retarget(st, self) ==
    IF st.fl.rf # self THEN [flushFileNames(st) EXCEPT !.fl.rf = self] ELSE st

\* setExtStatus with the entry of the origin added for a copy as well
setExtStatusAlwaysOrigin(st, self, rowSt, parNum) ==
    LET Entry(s, path, flag, extStatusInfo) ==
            [appendFileName(Retarget(s, self), path) EXCEPT !.objs[self] =
                rfAppendExtStatus(rfSetStatus(rfAppendMergeParent(@, parNum), flag), extStatusInfo)]
        Both(orig, dest, extStatusInfo) ==
            [Entry(Entry(st, dest, "NEW", extStatusInfo), orig, "DELETED", extStatusInfo)
                EXCEPT !.objs[self] = rfSetOnlyModified(@, FALSE)]
        Annotated(type, orig, dest) ==
            Both(orig, dest,
                 orig \o <<" ", "-", "-", ">", " ">> \o dest \o <<" ", "(">>
                      \o number(toInt(type)) \o <<"%", ")">>)
        Fields3(sl) == IF Len(sl) # 3 THEN st ELSE Annotated(mid(sl[1], 1), sl[2], sl[3])
    IN Fields3(split(rowSt, "\t"))

setExtStatus(st, self, rowSt, parNum) ==
    LET Entry(s, path, flag, extStatusInfo) ==
            [appendFileName(Retarget(s, self), path) EXCEPT !.objs[self] =
                rfAppendExtStatus(rfSetStatus(rfAppendMergeParent(@, parNum), flag), extStatusInfo)]
        \* type.at(0) == 'R' is tested after the first character was removed
        Origin(s2, type, orig, extStatusInfo) ==
            IF type # <<>> /\ type[1] = "R" THEN Entry(s2, orig, "DELETED", extStatusInfo) ELSE s2
        Both(type, orig, dest, extStatusInfo) ==
            [Origin(Entry(st, dest, "NEW", extStatusInfo), type, orig, extStatusInfo)
                EXCEPT !.objs[self] = rfSetOnlyModified(@, FALSE)]
        Annotated(type, orig, dest) ==
            Both(type, orig, dest,
                 orig \o <<" ", "-", "-", ">", " ">> \o dest \o <<" ", "(">>
                      \o number(toInt(type)) \o <<"%", ")">>)
        Fields3(sl) == IF Len(sl) # 3 THEN st ELSE Annotated(mid(sl[1], 1), sl[2], sl[3])
    IN Fields3(split(rowSt, "\t"))

ParseLine(st, self, line, parNum) ==
    IF line.colons = 2
    THEN LET Last(parts) == IF parts = <<>> THEN <<>> ELSE parts[Len(parts)]
         IN [appendFileName(Retarget(st, self), Last(split(line.rest, "\t")))
                EXCEPT !.objs[self] = rfAppendMergeParent(rfSetStatus(@, "MODIFIED"), parNum)]
    ELSE IF Len(line.rest) >= 2 /\ line.rest[2] = "\t"
         THEN [appendFileName(Retarget(st, self), mid(line.rest, 2)) EXCEPT !.objs[self] =
                  rfAppendMergeParent(rfSetStatus(@, StatusOfChar(line.rest[1])), parNum)]
         ELSE setExtStatus(st, self, line.rest, parNum)

RECURSIVE ParseFrom(_, _, _, _, _)
ParseFrom(st, self, lines, k, parNum) ==
    IF k > Len(lines) THEN st
    ELSE IF lines[k].colons > 0
         THEN ParseFrom(ParseLine(st, self, lines[k], parNum), self, lines, k + 1, parNum)
         ELSE ParseFrom(st, self, lines, k + 1, parNum + 1)

\* parseDiffFormat(buf, fl): the local rf is the object self of st.objs
parseDiffFormat(st, self, buf) ==
    ParseFrom([st EXCEPT !.objs[self] = RevisionFiles], self, buf, 1, 1)

-----------------------------------------------------------------------------
(* The heap of CommitInfo objects.  A cell is live between new and delete; *)
(* a freed cell keeps its last content, which is what a read through a     *)
(* dangling pointer may still see.                                         *)

Live(p) == p # nullptr /\ p <= Len(heap) /\ heap[p].live

Dangling(p) == p # nullptr /\ p <= Len(heap) /\ ~heap[p].live

\* new CommitInfo: a fresh address, or the address of a block that was freed
NewAddrs(h) == {Len(h) + 1} \cup {p \in 1..Len(h) : ~h[p].live}

HeapNew(h, p, rec) ==
    IF p = Len(h) + 1 THEN Append(h, [live |-> TRUE, rec |-> rec])
    ELSE [h EXCEPT ![p] = [live |-> TRUE, rec |-> rec]]

HeapDelete(h, p) == IF p = nullptr THEN h ELSE [h EXCEPT ![p].live = FALSE]

HeapWrite(h, p, rec) == [h EXCEPT ![p].rec = rec]

\* count(): number of rows of the position index
count == Len(mCommits)

\* the pointer stored at row r (0-based), nullptr for an empty slot
Row(r) == mCommits[r + 1]

-----------------------------------------------------------------------------
(* Inputs *)

Branches == {"master"}

\* the commit records handed to commit, insertCommitInfo and updateCommitSha:
\* a child, the same identifier with another log text, its parent, a merge
\* of the two other identifiers, and a root
Child == CommitInfo(<<"1", "1">>, <<<<"1", "2">>>>, <<"a", "l">>, 1, <<"f", "x">>)
ChildReworded == CommitInfo(<<"1", "1">>, <<<<"1", "2">>>>, <<"a", "l">>, 1, <<"a", "d">>)
Parent == CommitInfo(<<"1", "2">>, <<<<"2", "1">>>>, <<"a", "l">>, 1, <<"f", "x">>)
Merge == CommitInfo(<<"2", "1">>, <<<<"1", "1">>, <<"1", "2">>>>, <<"b", "o">>, 1, <<"a", "d">>)
Root == CommitInfo(<<"2", "1">>, <<>>, <<"a", "l">>, 1, <<"f", "x">>)

CommitInputs == {Child, ChildReworded, Parent, Merge, Root}

\* the strings handed to the lookups: identifiers, abbreviations, unknown ones
LookupShas == {<<"1", "1">>, <<"1", "2">>, EmptyString, <<"1">>, <<"3", "3">>}

-----------------------------------------------------------------------------
(* Initial state: RevisionsCache::RevisionsCache, RevisionsCache.h 94-104 *)

NoCall == [kind |-> "none", op |-> "none", args |-> <<>>, ret |-> <<>>]

\* the threads that call into the cache
Threads == {"loader", "client"}
NoThread == "none"
Idle == [op |-> "idle", args |-> <<>>, step |-> "idle", local |-> nullptr]

Init ==
    /\ mCacheLocked = FALSE
    /\ mCommits = <<>>
    /\ mCommitsMap = EmptyMap
    /\ mRevisionFilesMap = EmptyMap
    /\ mReferences = <<>>
    /\ mLocalBranchDistances = EmptyMap
    /\ mLanes = EmptyLanes
    /\ mDirNames = <<>>
    /\ mFileNames = <<>>
    /\ mUntrackedfiles = <<>>
    /\ heap = <<>>
    /\ mMutex = NoThread
    /\ pc = [t \in Threads |-> Idle]
    /\ fault = "none"
    /\ nOps = 0
    /\ last = NoCall

\* QMutexLocker locker(&mMutex) at the top of operation op: the mutex is free
\* and the whole operation runs as one step, or a thread took the mutex for
\* op in an earlier step and now runs the body
Locker(op) == mMutex = NoThread \/ (mMutex \in Threads /\ pc[mMutex].op = op)

\* ~QMutexLocker: the thread that held the mutex releases it and is done
Unlock ==
    IF mMutex = NoThread THEN UNCHANGED threadVars
    ELSE /\ mMutex' = NoThread
         /\ pc' = [pc EXCEPT ![mMutex] = Idle]

\* a mutating call returns: the call is recorded and counted
Returned(op, args, ret) ==
    /\ last' = [kind |-> "call", op |-> op, args |-> args, ret |-> ret]
    /\ nOps' = nOps + 1
    /\ fault' = "none"

\* return of an operation that does not take the mutex
Called(op, args, ret) == Returned(op, args, ret) /\ UNCHANGED threadVars

\* return of an operation that holds a QMutexLocker
CalledUnlock(op, args, ret) == Returned(op, args, ret) /\ Unlock

\* a call runs into undefined behaviour and the program stops there
Faulted(op, args, kind) ==
    /\ last' = [kind |-> "call", op |-> op, args |-> args, ret |-> <<>>]
    /\ nOps' = nOps + 1
    /\ fault' = kind
    /\ UNCHANGED <<cacheVars, threadVars>>

\* a read-only call returns ret
Read(op, args, ret) ==
    /\ last' = [kind |-> "query", op |-> op, args |-> args, ret |-> ret]
    /\ UNCHANGED <<cacheVars, threadVars, fault, nOps>>

\* a client makes mutating calls and then looks at the cache with one query
Queried == last.kind = "query"

CanCall == fault = "none" /\ ~Queried /\ nOps < MaxOps

-----------------------------------------------------------------------------
(* Bulk load bracket *)

\* QVector::resize(n): the first n elements, padded with null pointers
VecResize(list, n) == [i \in 1..n |-> IF i <= Len(list) THEN list[i] ELSE nullptr]

\* beginCacheConfig without the test of mCommits.isEmpty()
beginCacheConfigResize(numElementsToStore) ==
    /\ CanCall
    /\ Locker("beginCacheConfig")
    /\ IF ~mCacheLocked
       THEN /\ mCommits' = VecResize(mCommits, numElementsToStore + 1)
            /\ mCacheLocked' = TRUE
       ELSE UNCHANGED <<mCommits, mCacheLocked>>
    /\ UNCHANGED <<mCommitsMap, mRevisionFilesMap, mReferences, mLocalBranchDistances,
                   mLanes, mDirNames, mFileNames, mUntrackedfiles, heap>>
    /\ CalledUnlock("beginCacheConfig", <<numElementsToStore>>, <<>>)

beginCacheConfig(numElementsToStore) ==
    /\ CanCall
    /\ Locker("beginCacheConfig")
    /\ IF ~mCacheLocked
       THEN /\ mCommits' = IF mCommits = <<>>
                           THEN VecResize(mCommits, numElementsToStore + 1)
                           ELSE mCommits
            /\ mCacheLocked' = TRUE
       ELSE UNCHANGED <<mCommits, mCacheLocked>>
    /\ UNCHANGED <<mCommitsMap, mRevisionFilesMap, mReferences, mLocalBranchDistances,
                   mLanes, mDirNames, mFileNames, mUntrackedfiles, heap>>
    /\ CalledUnlock("beginCacheConfig", <<numElementsToStore>>, <<>>)

endCacheConfig ==
    /\ CanCall
    /\ Locker("endCacheConfig")
    /\ mCacheLocked' = FALSE
    /\ UNCHANGED <<mCommits, mCommitsMap, mRevisionFilesMap, mReferences,
                   mLocalBranchDistances, mLanes, mDirNames, mFileNames, mUntrackedfiles, heap>>
    /\ CalledUnlock("endCacheConfig", <<>>, <<>>)

-----------------------------------------------------------------------------
(* insertCommitInfo *)

\* the record with its lanes is allocated and stored in both indices
storeCommitInfo(rev, orderIdx, res) ==
    \E rec \in {setLanes(rev, res.lanes)}, commit \in NewAddrs(heap) :
    \E h1 \in {HeapNew(heap, commit, rec)},
       map1 \in {MapInsert(mCommitsMap, rev.sha, commit)} :
         LET append == orderIdx >= count
             old == IF append THEN nullptr ELSE Row(orderIdx)
             same == old # nullptr /\ CommitInfoEquals(heap[old].rec, rec)
             overwrite == ~append /\ ~same
         IN /\ mLanes' = res.engine
            /\ mCommits' = IF append THEN Append(mCommits, commit)
                           ELSE IF overwrite THEN [mCommits EXCEPT ![orderIdx + 1] = commit]
                           ELSE mCommits
            /\ heap' = IF overwrite THEN HeapDelete(h1, old) ELSE h1
            /\ mCommitsMap' = IF parent(rev, 0) \in DOMAIN map1
                              THEN MapRemove(map1, parent(rev, 0))
                              ELSE map1

insertCommitInfo(rev, orderIdx) ==
    /\ CanCall
    /\ IF mCacheLocked /\ rev.sha \notin DOMAIN mCommitsMap
       THEN \E res \in {calculateLanes(mLanes, rev)} : storeCommitInfo(rev, orderIdx, res)
       ELSE UNCHANGED <<mLanes, mCommits, heap, mCommitsMap>>
    /\ UNCHANGED <<mCacheLocked, mRevisionFilesMap, mReferences, mLocalBranchDistances,
                   mDirNames, mFileNames, mUntrackedfiles>>
    /\ Called("insertCommitInfo", <<rev, orderIdx>>, <<>>)

-----------------------------------------------------------------------------
(* Dereferencing a pointer of the cache.  A null pointer stops the program;*)
(* a dangling pointer either stops it or reaches the freed block, which    *)
(* still holds its last content.                                           *)

Reaches(p) == p # nullptr

MayFault(p) == p = nullptr \/ Dangling(p)

FaultKind(p) == IF p = nullptr THEN "null_dereference" ELSE "use_after_free"

-----------------------------------------------------------------------------
(* commit (appendCommit).  moved tells whether constructing the new record *)
(* from std::move(c) left c empty (a move constructor) or intact (a copy). *)

MovedFrom(c, moved) == IF moved THEN DefaultCommitInfo ELSE c

commit(c, localBranch, moved) ==
    /\ CanCall
    /\ Locker("commit")
    /\ \E args \in {<<c, localBranch>>}, res \in {calculateLanes(mLanes, c)} :
       \E rec \in {setLanes(c, res.lanes)}, new \in NewAddrs(heap) :
       \E after \in {MovedFrom(rec, moved)}, h1 \in {HeapNew(heap, new, rec)} :
       \E map1 \in {MapInsert(MapInsert(mCommitsMap, rec.sha, new), after.sha, new)} :
       \E par \in {MapValue(map1, parent(after, 0), nullptr)} :
            LET Moved(h) ==
                    IF SeqContains(getReferences(h[par].rec.refs, "LocalBranch"), localBranch)
                    THEN HeapWrite(h, par, [h[par].rec EXCEPT !.refs =
                             removeReference(@, "LocalBranch", localBranch)])
                    ELSE h
                Added(h2) == HeapWrite(h2, new, [h2[new].rec EXCEPT !.refs =
                                 addReference(@, "LocalBranch", localBranch)])
                h3 == Added(Moved(h1))
            IN \/ /\ count = 0
                  /\ Faulted("commit", args, "index_out_of_range")
               \/ /\ count > 0
                  /\ MayFault(par)
                  /\ Faulted("commit", args, FaultKind(par))
               \/ /\ count > 0
                  /\ Reaches(par)
                  /\ mLanes' = res.engine
                  /\ mCommits' = VecInsert(mCommits, 1, new)
                  /\ mCommitsMap' = map1
                  /\ heap' = h3
                  /\ UNCHANGED <<mCacheLocked, mRevisionFilesMap, mReferences,
                                 mLocalBranchDistances, mDirNames, mFileNames, mUntrackedfiles>>
                  /\ CalledUnlock("commit", args, <<>>)

-----------------------------------------------------------------------------
(* updateCommitSha (renameCommit) *)

updateCommitSha(oldSha, c) ==
    /\ CanCall
    /\ Locker("updateCommitSha")
    /\ LET args == <<oldSha, c>>
           cm == MapValue(mCommitsMap, oldSha, nullptr)
       IN \/ /\ MayFault(cm)
             /\ Faulted("updateCommitSha", args, FaultKind(cm))
          \/ /\ Reaches(cm)
             /\ heap' = HeapWrite(heap, cm, addReferences(c, heap[cm].rec.refs))
             /\ mCommitsMap' = MapInsert(MapRemove(mCommitsMap, oldSha), c.sha, cm)
             /\ UNCHANGED <<mCacheLocked, mCommits, mRevisionFilesMap, mReferences,
                            mLocalBranchDistances, mLanes, mDirNames, mFileNames,
                            mUntrackedfiles>>
             /\ CalledUnlock("updateCommitSha", args, <<>>)

-----------------------------------------------------------------------------
(* insertReference / removeReference / insertLocalBranchDistances *)

insertReference(sha, type, reference) ==
    /\ CanCall
    /\ LET args == <<sha, type, reference>>
           \* mCommitsMap[sha] adds the key, with a null pointer, when it is absent
           map1 == IF sha \in DOMAIN mCommitsMap THEN mCommitsMap
                   ELSE MapInsert(mCommitsMap, sha, nullptr)
           cm == map1[sha]
           rest == <<mCacheLocked, mCommits, mRevisionFilesMap, mLocalBranchDistances,
                     mLanes, mDirNames, mFileNames, mUntrackedfiles>>
       IN IF mCacheLocked
          THEN \/ /\ cm = nullptr
                  /\ mCommitsMap' = map1
                  /\ UNCHANGED <<heap, mReferences, rest>>
                  /\ Called("insertReference", args, <<>>)
               \/ /\ Dangling(cm)
                  /\ Faulted("insertReference", args, "use_after_free")
               \/ /\ Reaches(cm)
                  /\ mCommitsMap' = map1
                  /\ heap' = HeapWrite(heap, cm, [heap[cm].rec EXCEPT !.refs =
                                 addReference(@, type, reference)])
                  /\ mReferences' = IF SeqContains(mReferences, cm) THEN mReferences
                                    ELSE Append(mReferences, cm)
                  /\ UNCHANGED rest
                  /\ Called("insertReference", args, <<>>)
          ELSE /\ UNCHANGED cacheVars
               /\ Called("insertReference", args, <<>>)

\* removeReference without the early return of the locked cache
removeReferenceAnyTime(sha) ==
    /\ CanCall
    /\ Locker("removeReference")
    /\ LET args == <<sha>>
           cm == MapValue(mCommitsMap, sha, nullptr)
       IN \/ /\ MayFault(cm)
             /\ Faulted("removeReference", args, FaultKind(cm))
          \/ /\ Reaches(cm)
             /\ heap' = HeapWrite(heap, cm, addReferences(heap[cm].rec, NoReferences))
             /\ UNCHANGED <<mCacheLocked, mCommits, mCommitsMap, mRevisionFilesMap,
                            mReferences, mLocalBranchDistances, mLanes, mDirNames,
                            mFileNames, mUntrackedfiles>>
             /\ CalledUnlock("removeReference", args, <<>>)

cacheRemoveReference(sha) ==
    /\ CanCall
    /\ LET args == <<sha>>
           cm == MapValue(mCommitsMap, sha, nullptr)
       IN IF mCacheLocked
          THEN /\ UNCHANGED cacheVars
               /\ Called("removeReference", args, <<>>)
          ELSE \/ /\ Locker("removeReference")
                  /\ MayFault(cm)
                  /\ Faulted("removeReference", args, FaultKind(cm))
               \/ /\ Locker("removeReference")
                  /\ Reaches(cm)
                  /\ heap' = HeapWrite(heap, cm, addReferences(heap[cm].rec, NoReferences))
                  /\ UNCHANGED <<mCacheLocked, mCommits, mCommitsMap, mRevisionFilesMap,
                                 mReferences, mLocalBranchDistances, mLanes, mDirNames,
                                 mFileNames, mUntrackedfiles>>
                  /\ CalledUnlock("removeReference", args, <<>>)

LocalBranchDistances == [aheadMaster |-> 0, behindMaster |-> 0, aheadOrigin |-> 0, behindOrigin |-> 0]

DistanceInputs == {[LocalBranchDistances EXCEPT !.aheadMaster = 1],
                   [LocalBranchDistances EXCEPT !.behindOrigin = 2]}

\* insertLocalBranchDistances without the test of mCacheLocked
insertLocalBranchDistancesAlways(name, distances) ==
    /\ CanCall
    /\ mLocalBranchDistances' = MapInsert(mLocalBranchDistances, name, distances)
    /\ UNCHANGED <<mCacheLocked, mCommits, mCommitsMap, mRevisionFilesMap, mReferences,
                   mLanes, mDirNames, mFileNames, mUntrackedfiles, heap>>
    /\ Called("insertLocalBranchDistances", <<name, distances>>, <<>>)

insertLocalBranchDistances(name, distances) ==
    /\ CanCall
    /\ mLocalBranchDistances' = IF mCacheLocked
                                THEN MapInsert(mLocalBranchDistances, name, distances)
                                ELSE mLocalBranchDistances
    /\ UNCHANGED <<mCacheLocked, mCommits, mCommitsMap, mRevisionFilesMap, mReferences,
                   mLanes, mDirNames, mFileNames, mUntrackedfiles, heap>>
    /\ Called("insertLocalBranchDistances", <<name, distances>>, <<>>)

-----------------------------------------------------------------------------
(* File-change index *)

\* the condition of insertRevisionFile without the tests of empty identifiers
RevisionFileInsertedAnyKey(locked, files, sha1, sha2, file) ==
    /\ ~locked
    /\ MapValue(files, <<sha1, sha2>>, RevisionFiles) # file

\* what insertRevisionFile stores, given the lock flag it sees
RevisionFileInserted(locked, files, sha1, sha2, file) ==
    /\ ~locked
    /\ sha1 # EmptyString
    /\ sha2 # EmptyString
    /\ MapValue(files, <<sha1, sha2>>, RevisionFiles) # file

\* insertRevisionFile with a key that does not tell sha1 from sha2
insertRevisionFileBothWays(sha1, sha2, file) ==
    /\ CanCall
    /\ LET stored == RevisionFileInserted(mCacheLocked, mRevisionFilesMap, sha1, sha2, file)
       IN /\ mRevisionFilesMap' = IF stored
                                  THEN MapInsert(MapInsert(mRevisionFilesMap, <<sha1, sha2>>, file),
                                                 <<sha2, sha1>>, file)
                                  ELSE mRevisionFilesMap
          /\ Called("insertRevisionFile", <<sha1, sha2, file>>, stored)
    /\ UNCHANGED <<mCacheLocked, mCommits, mCommitsMap, mReferences, mLocalBranchDistances,
                   mLanes, mDirNames, mFileNames, mUntrackedfiles, heap>>

insertRevisionFile(sha1, sha2, file) ==
    /\ CanCall
    /\ LET stored == RevisionFileInserted(mCacheLocked, mRevisionFilesMap, sha1, sha2, file)
       IN /\ mRevisionFilesMap' = IF stored THEN MapInsert(mRevisionFilesMap, <<sha1, sha2>>, file)
                                  ELSE mRevisionFilesMap
          /\ Called("insertRevisionFile", <<sha1, sha2, file>>, stored)
    /\ UNCHANGED <<mCacheLocked, mCommits, mCommitsMap, mReferences, mLocalBranchDistances,
                   mLanes, mDirNames, mFileNames, mUntrackedfiles, heap>>

setUntrackedFilesList(untrackedFiles) ==
    /\ CanCall
    /\ mUntrackedfiles' = untrackedFiles
    /\ UNCHANGED <<mCacheLocked, mCommits, mCommitsMap, mRevisionFilesMap, mReferences,
                   mLocalBranchDistances, mLanes, mDirNames, mFileNames, heap>>
    /\ Called("setUntrackedFilesList", <<untrackedFiles>>, <<>>)

-----------------------------------------------------------------------------
(* fakeWorkDirRevFile.  Object 1 is rf, object 2 the local of the second   *)
(* parseDiffFormat call.  nrvo tells whether that local is cachedFiles     *)
(* itself (the return value was constructed in place) or a dead object;    *)
(* garbage is what statusCmp reads past the end of cachedFiles' statuses.  *)

HasStatusLine(buf) == \E k \in 1..Len(buf) : buf[k].colons > 0

RECURSIVE AppendUntracked(_, _)
AppendUntracked(st, k) ==
    IF k > Len(mUntrackedfiles) THEN st
    ELSE AppendUntracked([appendFileName(Retarget(st, 1), mUntrackedfiles[k]) EXCEPT !.objs[1] =
                rfAppendMergeParent(rfSetStatus(@, "UNKNOWN"), 1)], k + 1)

RECURSIVE MarkInIndex(_, _, _, _)
MarkInIndex(rf, cachedFiles, i, garbage) ==
    IF i >= rfCount(rf) THEN rf
    ELSE IF IndexOf(cachedFiles.mFiles, rf.mFiles[i + 1]) # -1
         THEN LET conflict == IF i < Len(cachedFiles.status)
                              THEN "CONFLICT" \in cachedFiles.status[i + 1]
                              ELSE garbage
              IN MarkInIndex(rfAppendStatus(IF conflict THEN rfAppendStatus(rf, i, "CONFLICT") ELSE rf,
                                            i, "IN_INDEX"),
                             cachedFiles, i + 1, garbage)
         ELSE MarkInIndex(rf, cachedFiles, i + 1, garbage)

fakeWorkDirRevFile(diffIndex, diffIndexCache, nrvo, garbage) ==
    LET st0 == [dirs |-> mDirNames, names |-> mFileNames, fl |-> FileNamesLoader,
                objs |-> <<RevisionFiles, RevisionFiles>>]
        Marked(s5, cachedFiles) ==
            [rf |-> MarkInIndex(s5.objs[1], cachedFiles, 0, garbage),
             dirs |-> s5.dirs, names |-> s5.names]
        Flushed(s4, s5) == Marked(s5, IF nrvo THEN s5.objs[2] ELSE s4.objs[2])
        Cached(s4) == Flushed(s4, flushFileNames(s4))
        Untracked(s1) ==
            AppendUntracked([s1 EXCEPT !.fl.rf = 1, !.objs[1] = rfSetOnlyModified(@, FALSE)], 1)
    IN Cached(parseDiffFormat(Untracked(parseDiffFormat(st0, 1, diffIndex)), 2, diffIndexCache))

-----------------------------------------------------------------------------
(* updateWipCommit (updateWorkingDirectory) *)

NoLocalChanges == <<"N", "o", " ", "l", "o", "c", "a", "l", " ", "c", "h", "a", "n", "g", "e", "s">>
LocalChanges == <<"L", "o", "c", "a", "l", " ", "c", "h", "a", "n", "g", "e", "s">>

\* QDateTime::currentDateTime().toSecsSinceEpoch()
Times == {2}

updateWipCommit(parentSha, diffIndex, diffIndexCache) ==
    /\ CanCall
    /\ Locker("updateWipCommit")
    /\ \E nrvo \in (IF HasStatusLine(diffIndexCache) THEN BOOLEAN ELSE {TRUE}),
          garbage \in BOOLEAN, now \in Times :
         \E args \in {<<parentSha, diffIndex, diffIndexCache>>},
            fake \in {fakeWorkDirRevFile(diffIndex, diffIndexCache, nrvo, garbage)} :
         \E fakeRevFile \in {fake.rf} :
         \E stored \in {RevisionFileInserted(mCacheLocked, mRevisionFilesMap, ZERO_SHA,
                                              parentSha, fakeRevFile)},
            log \in {IF rfCount(fakeRevFile) = Len(mUntrackedfiles)
                     THEN NoLocalChanges ELSE LocalChanges} :
         \E c \in {CommitInfo(ZERO_SHA, <<parentSha>>, <<"-">>, now, log)} :
         \E res \in {calculateLanes(LanesInit(c.sha), c)} :
         \E rec \in {setLanes(c, res.lanes)} :
            \/ /\ count = 0
               /\ ~garbage
               /\ Faulted("updateWipCommit", args, "index_out_of_range")
            \/ /\ count > 0
               /\ garbage => fakeWorkDirRevFile(diffIndex, diffIndexCache, nrvo, FALSE) # fake
               /\ \E new \in NewAddrs(heap) :
                    /\ heap' = HeapDelete(HeapNew(heap, new, rec), Row(0))
                    /\ mCommits' = [mCommits EXCEPT ![1] = new]
                    /\ mCommitsMap' = MapInsert(mCommitsMap, ZERO_SHA, new)
               /\ mRevisionFilesMap' = IF stored
                                       THEN MapInsert(mRevisionFilesMap, <<ZERO_SHA, parentSha>>, fakeRevFile)
                                       ELSE mRevisionFilesMap
               /\ mLanes' = res.engine
               /\ mDirNames' = fake.dirs
               /\ mFileNames' = fake.names
               /\ UNCHANGED <<mCacheLocked, mReferences, mLocalBranchDistances, mUntrackedfiles>>
               /\ CalledUnlock("updateWipCommit", args, <<>>)

-----------------------------------------------------------------------------
(* updateLanes: the lanes of every row whose pointer differs from row 0's  *)
(* are computed again, in row order, from the engine as it stands.         *)

\* commit->setLanes(calculateLanes(*commit)) for the record at p
updateLanesRow(st, p) ==
    [engine |-> calculateLanes(st.engine, st.heap[p].rec).engine,
     heap |-> HeapWrite(st.heap, p, setLanes(st.heap[p].rec,
                            calculateLanes(st.engine, st.heap[p].rec).lanes))]

\* the loop over mCommits from row i - 1 on
RECURSIVE updateLanesFrom(_, _)
updateLanesFrom(st, i) ==
    IF i > Len(mCommits) THEN st
    ELSE IF mCommits[i] = mCommits[1] THEN updateLanesFrom(st, i + 1)
    ELSE CHOOSE end \in {updateLanesFrom(next, i + 1) :
                            next \in {updateLanesRow(st, mCommits[i])}} : TRUE

updateLanes ==
    /\ CanCall
    /\ Locker("updateLanes")
    /\ IF \E i \in 1..Len(mCommits) : mCommits[i] # mCommits[1] /\ mCommits[i] = nullptr
       THEN Faulted("updateLanes", <<>>, "null_dereference")
       ELSE \E res \in {updateLanesFrom([engine |-> mLanes, heap |-> heap], 1)} :
               /\ mLanes' = res.engine
               /\ heap' = res.heap
               /\ UNCHANGED <<mCacheLocked, mCommits, mCommitsMap, mRevisionFilesMap,
                              mReferences, mLocalBranchDistances, mDirNames, mFileNames,
                              mUntrackedfiles>>
               /\ CalledUnlock("updateLanes", <<>>, <<>>)

-----------------------------------------------------------------------------
(* clear *)

\* clear that drops the position index as well
clearAll ==
    /\ CanCall
    /\ Locker("clear")
    /\ mDirNames' = <<>>
    /\ mFileNames' = <<>>
    /\ mRevisionFilesMap' = EmptyMap
    /\ mLanes' = LanesClear(mLanes)
    /\ mCommits' = <<>>
    /\ mCommitsMap' = EmptyMap
    /\ mReferences' = <<>>
    /\ UNCHANGED <<mCacheLocked, mLocalBranchDistances, mUntrackedfiles, heap>>
    /\ CalledUnlock("clear", <<>>, <<>>)

clear ==
    /\ CanCall
    /\ Locker("clear")
    /\ mDirNames' = <<>>
    /\ mFileNames' = <<>>
    /\ mRevisionFilesMap' = EmptyMap
    /\ mLanes' = LanesClear(mLanes)
    /\ mCommitsMap' = EmptyMap
    /\ mReferences' = <<>>
    /\ UNCHANGED <<mCacheLocked, mCommits, mLocalBranchDistances, mUntrackedfiles, heap>>
    /\ CalledUnlock("clear", <<>>, <<>>)

-----------------------------------------------------------------------------
(* Read operations.  Each returns its default value when the cache is      *)
(* locked, before it touches the mutex or the indices.                     *)

CanRead == fault = "none" /\ ~Queried

\* a read that takes a QMutexLocker once it has seen that the cache is not
\* locked: it goes on when the mutex is free
ReadLocker == mCacheLocked \/ mMutex = NoThread

ReadFaulted(op, args, kind) ==
    /\ last' = [kind |-> "query", op |-> op, args |-> args, ret |-> <<>>]
    /\ fault' = kind
    /\ UNCHANGED <<cacheVars, threadVars, nOps>>

\* a read through pointer p: the program may stop, or the read returns val
ReadThrough(op, args, p, val) ==
    \/ /\ MayFault(p)
       /\ ReadFaulted(op, args, FaultKind(p))
    \/ /\ Reaches(p)
       /\ Read(op, args, val)

getCommitInfoByRow(row) ==
    /\ CanRead
    /\ LET cm == IF row >= 0 /\ row < count THEN Row(row) ELSE nullptr
       IN IF mCacheLocked \/ cm = nullptr
          THEN Read("getCommitInfoByRow", <<row>>, DefaultCommitInfo)
          ELSE ReadThrough("getCommitInfoByRow", <<row>>, cm, heap[cm].rec)

getCommitPosResult(sha) == IndexOf(mCommits, MapValue(mCommitsMap, sha, nullptr))

\* getCommitPos with the QMutexLocker ahead of the test of mCacheLocked
getCommitPosLockFirst(sha) ==
    /\ CanRead
    /\ mMutex = NoThread
    /\ Read("getCommitPos", <<sha>>, IF mCacheLocked THEN -1 ELSE getCommitPosResult(sha))

getCommitPos(sha) ==
    /\ CanRead
    /\ ReadLocker
    /\ Read("getCommitPos", <<sha>>, IF mCacheLocked THEN -1 ELSE getCommitPosResult(sha))

\* the keys the prefix scan of getCommitInfo can stop at: QHash::keys() has
\* no defined order, so any key that starts with sha can be the first found
PrefixKeys(sha) == {k \in DOMAIN mCommitsMap : startsWith(k, sha)}

getCommitInfo(sha) ==
    /\ CanRead
    /\ ReadLocker
    /\ LET args == <<sha>>
           c == MapValue(mCommitsMap, sha, nullptr)
       IN IF mCacheLocked \/ sha = EmptyString
          THEN Read("getCommitInfo", args, DefaultCommitInfo)
          ELSE IF c # nullptr
               THEN ReadThrough("getCommitInfo", args, c, heap[c].rec)
               ELSE IF PrefixKeys(sha) = {}
                    THEN Read("getCommitInfo", args, DefaultCommitInfo)
                    ELSE \E it \in PrefixKeys(sha) :
                           ReadThrough("getCommitInfo", args, mCommitsMap[it],
                                       heap[mCommitsMap[it]].rec)

\* QString::contains(text): text occurs in str
contains(str, text) ==
    \E k \in 0..(Len(str) - Len(text)) : SubSeq(str, k + 1, k + Len(text)) = text

Fields == {"SHA", "AUTHOR", "SHORT_LOG"}

getFieldStr(c, field) ==
    IF field = "SHA" THEN c.sha ELSE IF field = "AUTHOR" THEN c.author ELSE c.log

\* searchCommit: the first row >= startingPoint that stops std::find_if, which
\* is a row whose record matches or an empty slot it dereferences; count when
\* the scan reaches the end
searchCommit(field, text, startingPoint) ==
    LET stops == {r \in startingPoint..(count - 1) :
                     Row(r) = nullptr \/ contains(getFieldStr(heap[Row(r)].rec, field), text)}
    IN IF stops = {} THEN count ELSE CHOOSE r \in stops : \A q \in stops : r <= q

getCommitInfoByField(field, text, startingPoint) ==
    /\ CanRead
    /\ LET args == <<field, text, startingPoint>>
           first == searchCommit(field, text, startingPoint)
           wrap == first = count /\ startingPoint > 0
           it == IF wrap THEN searchCommit(field, text, 0) ELSE first
           hitNull(r) == r < count /\ Row(r) = nullptr
       IN IF mCacheLocked
          THEN Read("getCommitInfoByField", args, DefaultCommitInfo)
          ELSE IF startingPoint > count
               THEN ReadFaulted("getCommitInfoByField", args, "iterator_out_of_range")
               ELSE IF hitNull(first) \/ hitNull(it)
                    THEN ReadFaulted("getCommitInfoByField", args, "null_dereference")
                    ELSE Read("getCommitInfoByField", args,
                              IF it # count THEN heap[Row(it)].rec ELSE DefaultCommitInfo)

getRevisionFileResult(sha1, sha2) == MapValue(mRevisionFilesMap, <<sha1, sha2>>, RevisionFiles)

getRevisionFile(sha1, sha2) ==
    /\ CanRead
    /\ Read("getRevisionFile", <<sha1, sha2>>,
            IF mCacheLocked THEN RevisionFiles ELSE getRevisionFileResult(sha1, sha2))

containsRevisionFile(sha1, sha2) ==
    /\ CanRead
    /\ Read("containsRevisionFile", <<sha1, sha2>>,
            ~mCacheLocked /\ <<sha1, sha2>> \in DOMAIN mRevisionFilesMap)

getLocalBranchDistances(name) ==
    /\ CanRead
    /\ Read("getLocalBranchDistances", <<name>>,
            IF mCacheLocked THEN LocalBranchDistances
            ELSE MapValue(mLocalBranchDistances, name, LocalBranchDistances))

\* pendingLocalChanges telling that the counts differ
pendingLocalChangesInverted ==
    /\ CanRead
    /\ ReadLocker
    /\ LET cm == MapValue(mCommitsMap, ZERO_SHA, nullptr)
       IN IF mCacheLocked \/ cm = nullptr
          THEN Read("pendingLocalChanges", <<>>, FALSE)
          ELSE ReadThrough("pendingLocalChanges", <<>>, cm,
                   rfCount(getRevisionFileResult(ZERO_SHA, parent(heap[cm].rec, 0)))
                       # Len(mUntrackedfiles))

pendingLocalChanges ==
    /\ CanRead
    /\ ReadLocker
    /\ LET cm == MapValue(mCommitsMap, ZERO_SHA, nullptr)
       IN IF mCacheLocked \/ cm = nullptr
          THEN Read("pendingLocalChanges", <<>>, FALSE)
          ELSE ReadThrough("pendingLocalChanges", <<>>, cm,
                   rfCount(getRevisionFileResult(ZERO_SHA, parent(heap[cm].rec, 0)))
                       = Len(mUntrackedfiles))

\* a pointer of the reference side-list that no longer points to a record
DanglingReference == \E i \in 1..Len(mReferences) : Dangling(mReferences[i])

\* the loop over mReferences of getBranches and getTags
ReferencesOfType(type) ==
    [i \in 1..Len(mReferences) |->
        <<heap[mReferences[i]].rec.sha, getReferences(heap[mReferences[i]].rec.refs, type)>>]

ReadReferences(op, args, val) ==
    \/ /\ ~mCacheLocked
       /\ DanglingReference
       /\ ReadFaulted(op, args, "use_after_free")
    \/ Read(op, args, IF mCacheLocked THEN <<>> ELSE val)

getBranches(type) ==
    /\ CanRead
    /\ ReadLocker
    /\ ReadReferences("getBranches", <<type>>, ReferencesOfType(type))

getTags ==
    /\ CanRead
    /\ ReadLocker
    /\ ReadReferences("getTags", <<>>, ReferencesOfType("Tag"))

getCommitForBranchResult(branch, local) ==
    LET type == IF local THEN "LocalBranch" ELSE "RemoteBranches"
        hits == {i \in 1..Len(mReferences) :
                    SeqContains(getReferences(heap[mReferences[i]].rec.refs, type), branch)}
    IN IF hits = {} THEN EmptyString
       ELSE heap[mReferences[CHOOSE i \in hits : \A j \in hits : i <= j]].rec.sha

getCommitForBranch(branch, local) ==
    /\ CanRead
    /\ ReadLocker
    /\ ReadReferences("getCommitForBranch", <<branch, local>>,
                      getCommitForBranchResult(branch, local))

-----------------------------------------------------------------------------
(* The calls a client makes, one at a time *)

Paths == {<<"a">>, <<"d", "/", "b">>}

UntrackedInputs == {<<>>, <<<<"a">>>>}

\* ":100644 100644 <sha> <sha> M\t<path>": a status line of the fast path
StatusLine(ch, path) == [colons |-> 1, rest |-> <<ch, "\t">> \o path]

DiffInputs == {<<>>, <<StatusLine("M", <<"d", "/", "b">>)>>}

RevisionFileInputs == {RevisionFiles, [RevisionFiles EXCEPT !.mFiles = <<<<"a">>>>, !.status = <<{"MODIFIED"}>>,
                                                          !.mergeParent = <<1>>]}

RefShas == {<<"1", "1">>, <<"1", "2">>}

PosShas == {<<"1", "1">>, <<"1", "2">>, <<"3", "3">>}

\* a client appends a commit it made on top of a commit of the history: the
\* first parent of c is in the position index
AppendsTo(c) == \E r \in 0..(count - 1) :
                   Row(r) # nullptr /\ heap[Row(r)].rec.sha = parent(c, 0)

\* loading the history and looking commits up
Load ==
    \/ \E n \in 0..MaxElements : beginCacheConfig(n)
    \/ endCacheConfig
    \/ \E rev \in {Child, ChildReworded, Parent}, orderIdx \in 1..MaxOrderIdx :
          insertCommitInfo(rev, orderIdx)
    \/ \E sha \in RefShas, type \in {"Tag", "LocalBranch"}, ref \in Branches :
          insertReference(sha, type, ref)
    \/ \E sha \in RefShas : cacheRemoveReference(sha)
    \/ \E name \in Branches, distances \in DistanceInputs :
          insertLocalBranchDistances(name, distances)
    \/ \E c \in {Child, Parent}, b \in Branches, moved \in BOOLEAN :
          AppendsTo(c) /\ commit(c, b, moved)

Lookup ==
    \/ \E row \in 0..MaxOrderIdx : getCommitInfoByRow(row)
    \/ \E sha \in PosShas : getCommitPos(sha)
    \/ \E sha \in LookupShas : getCommitInfo(sha)

Next == Load \/ Lookup

Spec == Init /\ [][Next]_vars

-----------------------------------------------------------------------------
(* Two threads.  An operation that opens with QMutexLocker takes the mutex *)
(* in one step and runs its body in a later one; in between, the other     *)
(* thread runs whatever does not wait for the mutex.                       *)

\* QMutexLocker locker(&mMutex) of thread t at the top of operation op
lock(t, op, args) ==
    /\ CanCall
    /\ pc[t] = Idle
    /\ mMutex = NoThread
    /\ mMutex' = t
    /\ pc' = [pc EXCEPT ![t] = [op |-> op, args |-> args, step |-> "locked", local |-> nullptr]]
    /\ UNCHANGED <<cacheVars, fault, nOps, last>>

\* thread t is inside operation op, behind its QMutexLocker
Holds(t, op) == mMutex = t /\ pc[t].op = op

\* a thread is free to make a call
SomeIdle == \E t \in Threads : pc[t] = Idle

\* the working directory has no change, or one modified file
WipDiffs == {<<>>, <<StatusLine("M", <<"a">>)>>}

\* the history is loaded while the working directory is refreshed, and a
\* client reads
Fill ==
    \/ \E n \in 0..MaxElements : beginCacheConfig(n)
    \/ endCacheConfig
    \/ \E orderIdx \in 1..MaxOrderIdx : SomeIdle /\ insertCommitInfo(Child, orderIdx)
    \/ SomeIdle /\ insertReference(Child.sha, "LocalBranch", "master")
    \/ \E distances \in DistanceInputs :
          SomeIdle /\ insertLocalBranchDistances("master", distances)
    \/ \E file \in RevisionFileInputs \ {RevisionFiles} :
          SomeIdle /\ insertRevisionFile(Child.sha, Parent.sha, file)
    \/ \E t \in Threads, diffIndex \in WipDiffs :
          lock(t, "updateWipCommit", <<Parent.sha, diffIndex, <<>>>>)
    \/ \E t \in Threads :
          Holds(t, "updateWipCommit")
             /\ updateWipCommit(pc[t].args[1], pc[t].args[2], pc[t].args[3])

ReadAny ==
    \/ \E row \in 0..MaxOrderIdx : getCommitInfoByRow(row)
    \/ \E sha \in PosShas : getCommitPos(sha)
    \/ \E sha \in LookupShas : getCommitInfo(sha)
    \/ \E field \in Fields, start \in 0..MaxOrderIdx :
          getCommitInfoByField(field, <<"1">>, start)
    \/ \E sha1 \in {Child.sha, ZERO_SHA} : getRevisionFile(sha1, Parent.sha)
    \/ \E sha1 \in {Child.sha, ZERO_SHA} : containsRevisionFile(sha1, Parent.sha)
    \/ pendingLocalChanges
    \/ \E type \in {"LocalBranch", "Tag"} : getBranches(type)
    \/ getTags
    \/ \E local \in BOOLEAN : getCommitForBranch("master", local)
    \/ \E name \in Branches : getLocalBranchDistances(name)

NextRead == Fill \/ ReadAny

SpecRead == Init /\ [][NextRead]_vars

\* the five mutation operations called from two threads
NextMT ==
    \/ \E n \in 0..MaxElements : beginCacheConfig(n)
    \/ endCacheConfig
    \/ \E rev \in {Child, Parent}, orderIdx \in 1..MaxOrderIdx :
          SomeIdle /\ insertCommitInfo(rev, orderIdx)
    \/ \E sha \in RefShas : SomeIdle /\ insertReference(sha, "LocalBranch", "master")
    \/ \E t \in Threads, b \in Branches :
          AppendsTo(Child) /\ lock(t, "commit", <<Child, b>>)
    \/ \E t \in Threads, moved \in BOOLEAN :
          Holds(t, "commit") /\ commit(pc[t].args[1], pc[t].args[2], moved)
    \/ \E t \in Threads, oldSha \in RefShas :
          oldSha \in DOMAIN mCommitsMap /\ lock(t, "updateCommitSha", <<oldSha, ChildReworded>>)
    \/ \E t \in Threads :
          Holds(t, "updateCommitSha") /\ updateCommitSha(pc[t].args[1], pc[t].args[2])
    \/ \E t \in Threads : lock(t, "updateWipCommit", <<Parent.sha, <<>>, <<>>>>)
    \/ \E t \in Threads :
          Holds(t, "updateWipCommit")
             /\ updateWipCommit(pc[t].args[1], pc[t].args[2], pc[t].args[3])

SpecMT == Init /\ [][NextMT]_vars

\* reloads, appended and renamed commits between refreshes of the working
\* directory
NextWip ==
    \/ \E n \in 0..MaxElements : beginCacheConfig(n)
    \/ endCacheConfig
    \/ \E rev \in {Child, Parent}, orderIdx \in 1..MaxOrderIdx : insertCommitInfo(rev, orderIdx)
    \/ \E parentSha \in RefShas : updateWipCommit(parentSha, <<>>, <<>>)
    \/ \E b \in Branches, moved \in BOOLEAN : AppendsTo(Child) /\ commit(Child, b, moved)
    \/ \E oldSha \in RefShas :
          oldSha \in DOMAIN mCommitsMap /\ updateCommitSha(oldSha, ChildReworded)

SpecWip == Init /\ [][NextWip]_vars

-----------------------------------------------------------------------------
(* insertCommitInfo of a thread in two steps.  It holds no mutex, so other *)
(* calls run between the statements of its calculateLanes: the first step  *)
(* goes up to the last call before the snapshot, the second takes the      *)
(* snapshot, runs resetLanes and stores the record.                        *)

\* thread t is between the two steps
InLanes(t) == pc[t].op = "insertCommitInfo" /\ pc[t].step \in {"fork", "lanes"}

insertCommitInfoLanes(t, rev, orderIdx) ==
    /\ CanCall
    /\ pc[t] = Idle
    /\ mCacheLocked
    /\ rev.sha \notin DOMAIN mCommitsMap
    /\ \E isFork \in {LanesIsFork(mLanes, rev.sha)} :
          /\ mLanes' = markLanes(mLanes, rev, isFork)
          /\ pc' = [pc EXCEPT ![t] = [op |-> "insertCommitInfo", args |-> <<rev, orderIdx>>,
                                      step |-> IF isFork THEN "fork" ELSE "lanes",
                                      local |-> nullptr]]
    /\ UNCHANGED <<mCacheLocked, mCommits, mCommitsMap, mRevisionFilesMap, mReferences,
                   mLocalBranchDistances, mDirNames, mFileNames, mUntrackedfiles, heap,
                   mMutex, fault, nOps, last>>

insertCommitInfoStore(t) ==
    /\ fault = "none"
    /\ ~Queried
    /\ InLanes(t)
    /\ \E res \in {snapshotLanes(mLanes, pc[t].args[1], pc[t].step = "fork")} :
          storeCommitInfo(pc[t].args[1], pc[t].args[2], res)
    /\ UNCHANGED <<mCacheLocked, mRevisionFilesMap, mReferences, mLocalBranchDistances,
                   mDirNames, mFileNames, mUntrackedfiles, mMutex>>
    /\ pc' = [pc EXCEPT ![t] = Idle]
    /\ Returned("insertCommitInfo", pc[t].args, <<>>)

\* the loader fills the history, its insertCommitInfo in one step or in two,
\* while the client appends a commit, refreshes the working directory,
\* computes the lanes again or searches
NextLanes ==
    \/ \E n \in 0..MaxElements : beginCacheConfig(n)
    \/ endCacheConfig
    \/ \E rev \in {Parent, Merge, Root}, orderIdx \in 1..MaxOrderIdx :
          SomeIdle /\ insertCommitInfo(rev, orderIdx)
    \/ \E orderIdx \in 1..MaxOrderIdx : insertCommitInfoLanes("loader", Child, orderIdx)
    \/ insertCommitInfoStore("loader")
    \/ AppendsTo(Child) /\ lock("client", "commit", <<Child, "master">>)
    \/ \E moved \in BOOLEAN :
          Holds("client", "commit") /\ commit(pc["client"].args[1], pc["client"].args[2], moved)
    \/ lock("client", "updateWipCommit", <<Parent.sha, <<>>, <<>>>>)
    \/ Holds("client", "updateWipCommit")
          /\ updateWipCommit(pc["client"].args[1], pc["client"].args[2], pc["client"].args[3])
    \/ lock("client", "updateLanes", <<>>)
    \/ Holds("client", "updateLanes") /\ updateLanes
    \/ \E start \in 0..MaxOrderIdx : getCommitInfoByField("SHA", <<"1">>, start)

SpecLanes == Init /\ [][NextLanes]_vars

-----------------------------------------------------------------------------
(* What the claims talk about *)

IsCall(op) == last.kind = "call" /\ last.op = op /\ fault = "none"

IsQuery(op) == last.kind = "query" /\ last.op = op

\* the rows of the position index that hold the record of identifier sha
RowsOf(sha) == {r \in 0..(count - 1) : Row(r) # nullptr /\ heap[Row(r)].rec.sha = sha}

\* the identifier index has a record for sha
HasRecord(sha) == sha \in DOMAIN mCommitsMap /\ Live(mCommitsMap[sha])

-----------------------------------------------------------------------------
\* C1: while the cache is locked every read returns its default value,
\* changes neither the cache nor the mutex, and can return whoever holds the
\* mutex.
ReadDefault(op) ==
    CASE op \in {"getCommitInfoByRow", "getCommitInfo", "getCommitInfoByField"} -> DefaultCommitInfo
      [] op = "getCommitPos" -> -1
      [] op = "getRevisionFile" -> RevisionFiles
      [] op \in {"containsRevisionFile", "pendingLocalChanges"} -> FALSE
      [] op \in {"getBranches", "getTags"} -> <<>>
      [] op = "getCommitForBranch" -> EmptyString
      [] op = "getLocalBranchDistances" -> LocalBranchDistances

NoReadWaits ==
    /\ \A row \in 0..MaxOrderIdx : ENABLED getCommitInfoByRow(row)
    /\ \A sha \in PosShas : ENABLED getCommitPos(sha)
    /\ \A sha \in LookupShas : ENABLED getCommitInfo(sha)
    /\ \A field \in Fields, start \in 0..MaxOrderIdx :
          ENABLED getCommitInfoByField(field, <<"1">>, start)
    /\ \A sha1 \in {Child.sha, ZERO_SHA} : ENABLED getRevisionFile(sha1, Parent.sha)
    /\ \A sha1 \in {Child.sha, ZERO_SHA} : ENABLED containsRevisionFile(sha1, Parent.sha)
    /\ ENABLED pendingLocalChanges
    /\ \A type \in {"LocalBranch", "Tag"} : ENABLED getBranches(type)
    /\ ENABLED getTags
    /\ \A local \in BOOLEAN : ENABLED getCommitForBranch("master", local)
    /\ \A name \in Branches : ENABLED getLocalBranchDistances(name)

C1_LockedReads ==
    /\ []((last.kind = "query" /\ mCacheLocked) =>
             (fault = "none" /\ last.ret = ReadDefault(last.op)))
    /\ []((mCacheLocked /\ CanRead) => NoReadWaits)
    /\ [][(last'.kind = "query" /\ mCacheLocked) => UNCHANGED <<cacheVars, threadVars>>]_vars

\* a locked cache that holds the commit, a thread inside updateWipCommit with
\* the mutex, and getCommitPos of that commit has returned
C1_Witness ==
    /\ IsQuery("getCommitPos")
    /\ mCacheLocked
    /\ mMutex # NoThread
    /\ RowsOf(last.args[1]) # {}
    /\ last.ret = -1

-----------------------------------------------------------------------------
\* C2: commit, insertCommitInfo, updateCommitSha, updateWipCommit and
\* insertReference run under the mutex: none of them takes effect while a
\* thread is inside another of them.
MutationOps == {"commit", "insertCommitInfo", "updateCommitSha", "updateWipCommit",
                "insertReference"}

C2_Serialized ==
    [][(nOps' = nOps + 1 /\ last'.op \in MutationOps /\ cacheVars' # cacheVars) =>
          (mMutex = NoThread \/ pc[mMutex].op = last'.op)]_vars

-----------------------------------------------------------------------------
\* C3: a commit record stored in a row of the position index (insertCommitInfo
\* or commit put it there) is what getCommitInfo(its identifier) returns
\* outside bulk load, and what getCommitInfoByRow(its row) returns, whatever
\* other commits were inserted at other rows in between.
C3_RoundTrip ==
    /\ (IsQuery("getCommitInfo") /\ ~mCacheLocked /\ RowsOf(last.args[1]) # {}) =>
          /\ fault = "none"
          /\ \E r \in RowsOf(last.args[1]) : last.ret = heap[Row(r)].rec
    /\ (IsQuery("getCommitInfoByRow") /\ ~mCacheLocked /\ last.args[1] < count
            /\ Row(last.args[1]) # nullptr) =>
          /\ fault = "none"
          /\ last.ret = heap[Row(last.args[1])].rec

-----------------------------------------------------------------------------
\* C4: during a bulk load, insertCommitInfo of an identifier whose record is
\* already in the position index changes neither the position index, nor the
\* identifier index, nor any record, nor the lane engine state.
C4_InsertIdempotent ==
    [][(last'.kind = "call" /\ last'.op = "insertCommitInfo" /\ mCacheLocked
            /\ RowsOf(last'.args[1].sha) # {})
        => UNCHANGED <<mCommits, mCommitsMap, heap, mLanes>>]_vars

-----------------------------------------------------------------------------
\* C5: updateWipCommit(p) leaves at row 0 the record of ZERO_SHA with the one
\* parent p, and the identifier index maps ZERO_SHA to that record; every
\* other call keeps it so.
WipIs(rows, map, h, p) ==
    /\ Len(rows) > 0
    /\ rows[1] # nullptr
    /\ h[rows[1]].live
    /\ h[rows[1]].rec.sha = ZERO_SHA
    /\ h[rows[1]].rec.parents = <<p>>
    /\ ZERO_SHA \in DOMAIN map
    /\ map[ZERO_SHA] = rows[1]

C5_WipAtRowZero ==
    [][fault' = "none" =>
          IF nOps' = nOps + 1 /\ last'.op = "updateWipCommit"
          THEN WipIs(mCommits', mCommitsMap', heap', last'.args[1])
          ELSE \A p \in RefShas : WipIs(mCommits, mCommitsMap, heap, p) =>
                                     WipIs(mCommits', mCommitsMap', heap', p)]_vars

-----------------------------------------------------------------------------
\* C6: insertCommitInfo, insertReference and insertLocalBranchDistances change
\* nothing when the cache is not locked; when it is locked, a new identifier
\* gets its record in the identifier index, a reference is attached to the
\* commit that has a record and the commit is on the side-list, and the
\* distances are stored under the branch name.
BulkLoadOps == {"insertCommitInfo", "insertReference", "insertLocalBranchDistances"}

TakesEffect ==
    LET a == last'.args
    IN CASE last'.op = "insertCommitInfo" ->
              a[1].sha \notin DOMAIN mCommitsMap =>
                 /\ a[1].sha \in DOMAIN mCommitsMap'
                 /\ mCommitsMap'[a[1].sha] # nullptr
                 /\ heap'[mCommitsMap'[a[1].sha]].live
                 /\ [heap'[mCommitsMap'[a[1].sha]].rec EXCEPT !.lanes = <<>>] = a[1]
         [] last'.op = "insertReference" ->
              HasRecord(a[1]) =>
                 /\ SeqContains(getReferences(heap'[mCommitsMap[a[1]]].rec.refs, a[2]), a[3])
                 /\ SeqContains(mReferences', mCommitsMap[a[1]])
         [] last'.op = "insertLocalBranchDistances" ->
              /\ a[1] \in DOMAIN mLocalBranchDistances'
              /\ mLocalBranchDistances'[a[1]] = a[2]

C6_BulkLoadOnly ==
    [][(nOps' = nOps + 1 /\ last'.op \in BulkLoadOps /\ fault' = "none") =>
          IF mCacheLocked THEN TakesEffect
          ELSE UNCHANGED <<mCommits, mCommitsMap, mReferences, mLocalBranchDistances,
                           mLanes, heap>>]_vars

\* a loaded cache, not locked, on which insertLocalBranchDistances was called
\* for a branch and stored nothing
C6_Witness ==
    /\ IsCall("insertLocalBranchDistances")
    /\ ~mCacheLocked
    /\ \E r \in 0..(count - 1) : Row(r) # nullptr
    /\ last.args[1] \notin DOMAIN mLocalBranchDistances

-----------------------------------------------------------------------------
\* C7: removeReference(sha), called during a bulk load for an identifier that
\* has a record in the cache, leaves that commit with an empty reference set.
C7_RemoveClearsInBulkLoad ==
    (IsCall("removeReference") /\ mCacheLocked /\ HasRecord(last.args[1])) =>
        heap[mCommitsMap[last.args[1]]].rec.refs = NoReferences

\* C7 as the code has it: removeReference(sha) changes nothing during a bulk
\* load; outside bulk load, for an identifier that has a record in the cache,
\* it returns and leaves that commit with an empty reference set.
C7_RemoveOutsideBulkLoad ==
    [][(nOps' = nOps + 1 /\ last'.op = "removeReference") =>
          IF mCacheLocked THEN fault' = "none" /\ UNCHANGED cacheVars
          ELSE HasRecord(last'.args[1]) =>
                  /\ fault' = "none"
                  /\ heap'[mCommitsMap[last'.args[1]]].rec.refs = NoReferences]_vars

\* outside bulk load, removeReference returned for a commit of the reference
\* side-list, and the commit has no reference left
C7_Witness ==
    /\ IsCall("removeReference")
    /\ ~mCacheLocked
    /\ HasRecord(last.args[1])
    /\ SeqContains(mReferences, mCommitsMap[last.args[1]])
    /\ heap[mCommitsMap[last.args[1]]].rec.refs = NoReferences

-----------------------------------------------------------------------------
\* C8: outside bulk load getCommitInfo(s) returns the record stored under
\* exactly s when there is one, else the record of some identifier that
\* starts with s when there is one, else an empty record; an empty record
\* for an empty s.
RecordKeys(prefix) == {k \in DOMAIN mCommitsMap : startsWith(k, prefix) /\ Live(mCommitsMap[k])}

GetCommitInfoExpected(sha, ret) ==
    IF sha = EmptyString THEN ret = DefaultCommitInfo
    ELSE IF HasRecord(sha) THEN ret = heap[mCommitsMap[sha]].rec
    ELSE IF RecordKeys(sha) # {} THEN \E k \in RecordKeys(sha) : ret = heap[mCommitsMap[k]].rec
    ELSE ret = DefaultCommitInfo

C8_GetCommitInfo ==
    (IsQuery("getCommitInfo") /\ ~mCacheLocked) =>
        /\ fault = "none"
        /\ GetCommitInfoExpected(last.args[1], last.ret)

-----------------------------------------------------------------------------
\* C9: outside bulk load getCommitPos(sha) returns a row that holds the record
\* of sha when the position index has such a row, and -1 when it has none.
C9_GetCommitPos ==
    (IsQuery("getCommitPos") /\ ~mCacheLocked) =>
        IF RowsOf(last.args[1]) = {} THEN last.ret = -1
        ELSE last.ret \in RowsOf(last.args[1])

-----------------------------------------------------------------------------
\* C10: commit(c, b) with the first parent P of c in the cache: afterwards b is
\* not a local branch of P, b is a local branch of the new commit (row 1),
\* the other kinds of references of P and every other record are unchanged.
C10_BranchMigration ==
    [][(last'.kind = "call" /\ last'.op = "commit" /\ fault' = "none"
            /\ HasRecord(parent(last'.args[1], 0)))
        => LET c == last'.args[1]
               b == last'.args[2]
               P == mCommitsMap[parent(c, 0)]
               new == mCommits'[2]
           IN /\ ~SeqContains(getReferences(heap'[P].rec.refs, "LocalBranch"), b)
              /\ SeqContains(getReferences(heap'[new].rec.refs, "LocalBranch"), b)
              /\ \A type \in RefTypes \ {"LocalBranch"} :
                    getReferences(heap'[P].rec.refs, type) = getReferences(heap[P].rec.refs, type)
              /\ \A q \in 1..Len(heap) : (q # P /\ q # new) => heap'[q] = heap[q]]_vars

-----------------------------------------------------------------------------
(* References of appended and renamed commits *)

\* the final record of a commit that was appended under a placeholder
Renamed == CommitInfo(<<"2", "2">>, <<<<"1", "2">>>>, <<"a", "l">>, 1, <<"a", "d">>)

\* a client renames a commit of the history
InHistory(sha) == \E r \in 0..(count - 1) : Row(r) # nullptr /\ heap[Row(r)].rec.sha = sha

NextRefs ==
    \/ \E n \in 0..MaxElements : beginCacheConfig(n)
    \/ endCacheConfig
    \/ \E rev \in {Child, Parent}, orderIdx \in 1..MaxOrderIdx : insertCommitInfo(rev, orderIdx)
    \/ \E sha \in RefShas, type \in {"Tag", "LocalBranch"}, ref \in Branches :
          insertReference(sha, type, ref)
    \/ \E sha \in RefShas : cacheRemoveReference(sha)
    \/ \E b \in Branches, moved \in BOOLEAN : AppendsTo(Child) /\ commit(Child, b, moved)
    \/ \E oldSha \in RefShas, c \in {ChildReworded, Renamed} :
          InHistory(oldSha) /\ updateCommitSha(oldSha, c)
    \/ \E type \in {"LocalBranch", "Tag"} : getBranches(type)
    \/ getTags
    \/ \E local \in BOOLEAN : getCommitForBranch("master", local)

SpecRefs == Init /\ [][NextRefs]_vars

\* the record has at least one reference
HasReferences(rec) == \E type \in RefTypes : getReferences(rec.refs, type) # <<>>

\* the rows whose record has branch among its references of the kind
RowsOfBranch(branch, local) ==
    {r \in 0..(count - 1) :
        /\ Row(r) # nullptr
        /\ SeqContains(getReferences(heap[Row(r)].rec.refs,
                                     IF local THEN "LocalBranch" ELSE "RemoteBranches"), branch)}

-----------------------------------------------------------------------------
\* C11: a commit of the position index is on the reference side-list exactly
\* when its reference set is not empty, and outside bulk load
\* getCommitForBranch(b, local) returns the identifier of a commit that has b
\* among its references of that kind when there is one (after commit(c, b),
\* the identifier of the appended commit).
C11_SideList ==
    /\ \A r \in 0..(count - 1) :
          (Row(r) # nullptr /\ Live(Row(r))) =>
              (SeqContains(mReferences, Row(r)) <=> HasReferences(heap[Row(r)].rec))
    /\ (IsQuery("getCommitForBranch") /\ ~mCacheLocked
            /\ RowsOfBranch(last.args[1], last.args[2]) # {}) =>
          /\ fault = "none"
          /\ \E r \in RowsOfBranch(last.args[1], last.args[2]) :
                last.ret = heap[Row(r)].rec.sha

-----------------------------------------------------------------------------
\* C12: updateCommitSha(oldSha, c) for an oldSha whose record is in the
\* position index, c having another identifier: the call returns, the record
\* stays at its row and holds c with the references it had, the identifier
\* index maps c's identifier to it and has no key oldSha, and no other row
\* and no other record changes.
C12_Rename ==
    [][(nOps' = nOps + 1 /\ last'.op = "updateCommitSha"
            /\ RowsOf(last'.args[1]) # {} /\ last'.args[1] # last'.args[2].sha)
        => LET oldSha == last'.args[1]
               c == last'.args[2]
           IN /\ fault' = "none"
              /\ mCommits' = mCommits
              /\ oldSha \notin DOMAIN mCommitsMap'
              /\ c.sha \in DOMAIN mCommitsMap'
              /\ \A r \in RowsOf(oldSha) :
                    /\ heap'[Row(r)].live
                    /\ heap'[Row(r)].rec = addReferences(c, heap[Row(r)].rec.refs)
                    /\ mCommitsMap'[c.sha] = Row(r)
              /\ \A q \in 1..Len(heap) :
                    (\A r \in RowsOf(oldSha) : q # Row(r)) => heap'[q] = heap[q]]_vars

-----------------------------------------------------------------------------
(* The file-change index and the working directory *)

\* file-change records handed to insertRevisionFile: none, one file, two files
FileInputs ==
    RevisionFileInputs \cup
        {[RevisionFiles EXCEPT !.mFiles = <<<<"a">>, <<"d", "/", "b">>>>,
                               !.status = <<{"MODIFIED"}, {"NEW"}>>,
                               !.mergeParent = <<1, 1>>, !.onlyModified = FALSE]}

\* the pairs of identifiers handed to the file-change index: a pair, the
\* same pair the other way round, and pairs with an empty identifier
FilePairs == {<<Child.sha, Parent.sha>>, <<Parent.sha, Child.sha>>,
              <<Child.sha, EmptyString>>, <<EmptyString, Parent.sha>>}

NextFiles ==
    \/ \E n \in 0..MaxElements : beginCacheConfig(n)
    \/ endCacheConfig
    \/ \E untrackedFiles \in UntrackedInputs : setUntrackedFilesList(untrackedFiles)
    \/ \E diffIndex \in DiffInputs : updateWipCommit(Parent.sha, diffIndex, <<>>)
    \/ \E pair \in FilePairs, file \in FileInputs : insertRevisionFile(pair[1], pair[2], file)
    \/ \E file \in FileInputs : insertRevisionFile(ZERO_SHA, Parent.sha, file)
    \/ \E pair \in FilePairs : getRevisionFile(pair[1], pair[2])
    \/ \E pair \in FilePairs : containsRevisionFile(pair[1], pair[2])
    \/ pendingLocalChanges

SpecFiles == Init /\ [][NextFiles]_vars

-----------------------------------------------------------------------------
\* C13: outside bulk load pendingLocalChanges() returns true exactly when the
\* identifier index has the record of ZERO_SHA and the file-change record
\* stored for (ZERO_SHA, first parent of that record) has as many files as the
\* untracked-file list; so it returns false with one more file in the record,
\* and false without the pseudo-commit.
WipFileCount ==
    rfCount(MapValue(mRevisionFilesMap,
                     <<ZERO_SHA, parent(heap[mCommitsMap[ZERO_SHA]].rec, 0)>>, RevisionFiles))

C13_PendingLocalChanges ==
    (IsQuery("pendingLocalChanges") /\ ~mCacheLocked) =>
        /\ fault = "none"
        /\ last.ret \in BOOLEAN
        /\ last.ret <=> (HasRecord(ZERO_SHA) /\ WipFileCount = Len(mUntrackedfiles))
        /\ (HasRecord(ZERO_SHA) /\ WipFileCount = Len(mUntrackedfiles) + 1) => last.ret = FALSE
        /\ ~HasRecord(ZERO_SHA) => last.ret = FALSE

\* one untracked file, a working directory with one more modified file, and
\* pendingLocalChanges returned false
C13_Witness ==
    /\ IsQuery("pendingLocalChanges")
    /\ ~mCacheLocked
    /\ HasRecord(ZERO_SHA)
    /\ Len(mUntrackedfiles) = 1
    /\ WipFileCount = 2
    /\ last.ret = FALSE

-----------------------------------------------------------------------------
\* C16: insertRevisionFile(a, b, f) with a # b changes at most the entry of
\* the ordered pair (a, b): the entry of (b, a) and of every other pair is the
\* same before and after, and so are the results of getRevisionFile(b, a) and
\* containsRevisionFile(b, a).
C16_Directional ==
    [][(nOps' = nOps + 1 /\ last'.op = "insertRevisionFile" /\ last'.args[1] # last'.args[2])
        => LET a == last'.args[1]
               b == last'.args[2]
           IN /\ mCacheLocked' = mCacheLocked
              /\ (<<b, a>> \in DOMAIN mRevisionFilesMap') <=> (<<b, a>> \in DOMAIN mRevisionFilesMap)
              /\ MapValue(mRevisionFilesMap', <<b, a>>, RevisionFiles)
                    = MapValue(mRevisionFilesMap, <<b, a>>, RevisionFiles)
              /\ \A key \in (DOMAIN mRevisionFilesMap \cup DOMAIN mRevisionFilesMap') \ {<<a, b>>} :
                    /\ key \in DOMAIN mRevisionFilesMap
                    /\ key \in DOMAIN mRevisionFilesMap'
                    /\ mRevisionFilesMap'[key] = mRevisionFilesMap[key]]_vars

\* insertRevisionFile(a, b, f) stored f under (a, b) and (b, a) has no entry
C16_Witness ==
    /\ IsCall("insertRevisionFile")
    /\ last.ret = TRUE
    /\ last.args[1] # last.args[2]
    /\ <<last.args[1], last.args[2]>> \in DOMAIN mRevisionFilesMap
    /\ mRevisionFilesMap[<<last.args[1], last.args[2]>>] = last.args[3]
    /\ <<last.args[2], last.args[1]>> \notin DOMAIN mRevisionFilesMap

-----------------------------------------------------------------------------
\* C17: outside bulk load insertRevisionFile(a, b, f) with a and b not empty
\* returns false and leaves the file-change index as it is when f is what
\* getRevisionFile(a, b) returns, and else stores f under (a, b) and returns
\* true, so that getRevisionFile(a, b) is f and containsRevisionFile(a, b) is
\* true; with a or b empty it returns false and stores nothing.
C17_InsertRevisionFile ==
    /\ [][(nOps' = nOps + 1 /\ last'.op = "insertRevisionFile" /\ ~mCacheLocked)
            => LET a == last'.args[1]
                   b == last'.args[2]
                   f == last'.args[3]
               IN IF a = EmptyString \/ b = EmptyString
                  THEN last'.ret = FALSE /\ mRevisionFilesMap' = mRevisionFilesMap
                  ELSE IF f = MapValue(mRevisionFilesMap, <<a, b>>, RevisionFiles)
                       THEN last'.ret = FALSE /\ mRevisionFilesMap' = mRevisionFilesMap
                       ELSE /\ last'.ret = TRUE
                            /\ ~mCacheLocked'
                            /\ <<a, b>> \in DOMAIN mRevisionFilesMap'
                            /\ mRevisionFilesMap'[<<a, b>>] = f]_vars
    /\ []((IsQuery("getRevisionFile") /\ ~mCacheLocked) =>
             last.ret = MapValue(mRevisionFilesMap, <<last.args[1], last.args[2]>>, RevisionFiles))
    /\ []((IsQuery("containsRevisionFile") /\ ~mCacheLocked) =>
             (last.ret <=> <<last.args[1], last.args[2]>> \in DOMAIN mRevisionFilesMap))

\* outside bulk load, a record was replaced by the empty record: the call
\* returned true and the pair still has an entry
C17_Witness ==
    /\ IsCall("insertRevisionFile")
    /\ ~mCacheLocked
    /\ last.ret = TRUE
    /\ last.args[3] = RevisionFiles
    /\ <<last.args[1], last.args[2]>> \in DOMAIN mRevisionFilesMap

-----------------------------------------------------------------------------
(* Renames and copies in the diff of the working directory *)

\* ":<mode> <mode> <sha> <sha> R<score>\t<orig>\t<dest>": a status line of a
\* rename (letter "R") or a copy (letter "C")
ExtStatusLine(letter, score, orig, dest) ==
    [colons |-> 1, rest |-> <<letter>> \o score \o <<"\t">> \o orig \o <<"\t">> \o dest]

\* similarity scores as git writes them and the percentage they stand for,
\* origin and destination paths
ExtInputs ==
    {[score |-> <<"9", "0">>, percent |-> <<"9", "0">>,
      orig |-> <<"o", "/", "p">>, dest |-> <<"n", "/", "q">>],
     [score |-> <<"0", "7", "5">>, percent |-> <<"7", "5">>,
      orig |-> <<"a">>, dest |-> <<"b">>]}

ExtDiffs ==
    {<<ExtStatusLine(letter, e.score, e.orig, e.dest)>> : letter \in {"R", "C"}, e \in ExtInputs}

NextParse ==
    \/ \E n \in 0..MaxElements : beginCacheConfig(n)
    \/ endCacheConfig
    \/ \E diffIndex \in ExtDiffs \cup DiffInputs : updateWipCommit(Parent.sha, diffIndex, <<>>)
    \/ getRevisionFile(ZERO_SHA, Parent.sha)

SpecParse == Init /\ [][NextParse]_vars

\* "<orig> --> <dest> (<percent>%)"
Annotation(e) ==
    e.orig \o <<" ", "-", "-", ">", " ">> \o e.dest \o <<" ", "(">> \o e.percent \o <<"%", ")">>

\* updateWipCommit has parsed the one status line of diffIndex outside bulk
\* load, with no untracked file and an empty diff of the index: the record
\* stored for the working directory is what the parser made of the line
ParsedAlone(letter, e) ==
    /\ IsCall("updateWipCommit")
    /\ ~mCacheLocked
    /\ mUntrackedfiles = <<>>
    /\ last.args[2] = <<ExtStatusLine(letter, e.score, e.orig, e.dest)>>
    /\ last.args[3] = <<>>

WipFiles == MapValue(mRevisionFilesMap, <<ZERO_SHA, last.args[1]>>, RevisionFiles)

-----------------------------------------------------------------------------
\* C14: a status line of a rename, R<NN> origin destination, gives a
\* file-change record with exactly two entries: the destination tagged NEW and
\* the origin tagged DELETED, both annotated "<origin> --> <destination> (NN%)".
C14_RenameParsing ==
    \A e \in ExtInputs :
        ParsedAlone("R", e) =>
            /\ WipFiles.mFiles = <<e.dest, e.orig>>
            /\ WipFiles.status = <<{"NEW"}, {"DELETED"}>>
            /\ WipFiles.extStatus = <<Annotation(e), Annotation(e)>>

-----------------------------------------------------------------------------
\* C15: a status line of a copy, C<NN> origin destination, gives a file-change
\* record with exactly one entry: the destination tagged NEW and annotated
\* "<origin> --> <destination> (NN%)", and no entry for the origin.
C15_CopyParsing ==
    \A e \in ExtInputs :
        ParsedAlone("C", e) =>
            /\ WipFiles.mFiles = <<e.dest>>
            /\ WipFiles.status = <<{"NEW"}>>
            /\ WipFiles.extStatus = <<Annotation(e)>>
            /\ WipFiles.mergeParent = <<1>>

\* the copy line with a path in a directory was parsed and the record of the
\* working directory has the one entry
C15_Witness ==
    /\ \E e \in ExtInputs : ParsedAlone("C", e) /\ Len(e.dest) > 1
    /\ Len(WipFiles.mFiles) = 1

-----------------------------------------------------------------------------
\* C18: beginCacheConfig(n) on a cache that is not locked sets the locked
\* flag, gives an empty position index n + 1 empty slots and leaves a
\* position index that is not empty as it is; on a locked cache it changes
\* nothing.  No other part of the cache changes.
C18_BeginBulkLoad ==
    [][(nOps' = nOps + 1 /\ last'.op = "beginCacheConfig")
        => /\ fault' = "none"
           /\ IF mCacheLocked THEN UNCHANGED cacheVars
              ELSE /\ mCacheLocked'
                   /\ IF mCommits = <<>>
                      THEN /\ Len(mCommits') = last'.args[1] + 1
                           /\ \A i \in 1..Len(mCommits') : mCommits'[i] = nullptr
                      ELSE mCommits' = mCommits
                   /\ UNCHANGED <<mCommitsMap, mRevisionFilesMap, mReferences,
                                  mLocalBranchDistances, mLanes, mDirNames, mFileNames,
                                  mUntrackedfiles, heap>>]_vars

\* a bulk load was begun on a position index that holds a record and has
\* another length than numElementsToStore + 1
C18_Witness ==
    /\ IsCall("beginCacheConfig")
    /\ mCacheLocked
    /\ count # last.args[1] + 1
    /\ \E r \in 0..(count - 1) : Row(r) # nullptr

-----------------------------------------------------------------------------
\* C19: outside bulk load getCommitInfoByField(field, text, start) returns the
\* record of the lowest row >= start whose field contains text; when no such
\* row exists and start > 0, the record of the lowest row that matches; an
\* empty record when no row matches.
MatchingRows(field, text) ==
    {r \in 0..(count - 1) :
        Row(r) # nullptr /\ contains(getFieldStr(heap[Row(r)].rec, field), text)}

LowestRow(rows) == CHOOSE r \in rows : \A q \in rows : r <= q

ByFieldExpected(field, text, start) ==
    LET all == MatchingRows(field, text)
        from == {r \in all : r >= start}
    IN IF from # {} THEN heap[Row(LowestRow(from))].rec
       ELSE IF start > 0 /\ all # {} THEN heap[Row(LowestRow(all))].rec
       ELSE DefaultCommitInfo

C19_SearchByField ==
    (IsQuery("getCommitInfoByField") /\ ~mCacheLocked) =>
        /\ fault = "none"
        /\ last.ret = ByFieldExpected(last.args[1], last.args[2], last.args[3])

-----------------------------------------------------------------------------
(* clear *)

NextClear ==
    \/ \E n \in 0..MaxElements : beginCacheConfig(n)
    \/ endCacheConfig
    \/ \E rev \in {Child, Parent}, orderIdx \in 1..MaxOrderIdx : insertCommitInfo(rev, orderIdx)
    \/ \E sha \in RefShas : insertReference(sha, "LocalBranch", "master")
    \/ \E distances \in DistanceInputs : insertLocalBranchDistances("master", distances)
    \/ \E diffIndex \in DiffInputs : updateWipCommit(Parent.sha, diffIndex, <<>>)
    \/ \E file \in RevisionFileInputs \ {RevisionFiles} :
          insertRevisionFile(Child.sha, Parent.sha, file)
    \/ clear
    \/ \E sha \in LookupShas \cup {ZERO_SHA} : getCommitInfo(sha)
    \/ \E sha1 \in {Child.sha, ZERO_SHA} : containsRevisionFile(sha1, Parent.sha)

SpecClear == Init /\ [][NextClear]_vars

-----------------------------------------------------------------------------
\* C20: clear() empties the name pools, the file-change index, the lanes, the
\* identifier index and the reference side-list, and leaves the position
\* index, the records, the locked flag, the untracked-file list and the
\* branch distances as they are; right after it, outside bulk load,
\* getCommitInfo returns an empty record and containsRevisionFile false.
C20_Clear ==
    /\ [][(nOps' = nOps + 1 /\ last'.op = "clear")
            => /\ fault' = "none"
               /\ mDirNames' = <<>>
               /\ mFileNames' = <<>>
               /\ mRevisionFilesMap' = EmptyMap
               /\ getLanes(mLanes') = <<>>
               /\ mCommitsMap' = EmptyMap
               /\ mReferences' = <<>>
               /\ UNCHANGED <<mCommits, heap, mCacheLocked, mUntrackedfiles,
                              mLocalBranchDistances>>]_vars
    /\ [][(IsCall("clear") /\ ~mCacheLocked /\ last'.kind = "query")
            => /\ fault' = "none"
               /\ last'.op = "getCommitInfo" => last'.ret = DefaultCommitInfo
               /\ last'.op = "containsRevisionFile" => last'.ret = FALSE]_vars

\* clear was called outside bulk load on a cache whose row 0 holds the
\* pseudo-commit and whose row 1 holds a commit: both rows still hold their
\* records and the identifier index is empty
C20_Witness ==
    /\ IsCall("clear")
    /\ ~mCacheLocked
    /\ RowsOf(ZERO_SHA) = {0}
    /\ count > 1
    /\ Row(1) # nullptr
    /\ Live(Row(1))
    /\ mCommitsMap = EmptyMap

-----------------------------------------------------------------------------
\* C22: the identifier index and the position index show the same records:
\* every key of the identifier index maps to a record that is not null, is
\* not freed, is stored in a row of the position index and has the key as its
\* identifier; every filled row has its identifier as a key that maps to the
\* record of that row.
C22_IndexViews ==
    /\ \A k \in DOMAIN mCommitsMap :
          /\ mCommitsMap[k] # nullptr
          /\ Live(mCommitsMap[k])
          /\ \E r \in 0..(count - 1) : Row(r) = mCommitsMap[k]
          /\ heap[mCommitsMap[k]].rec.sha = k
    /\ \A r \in 0..(count - 1) :
          Row(r) # nullptr =>
              /\ Live(Row(r))
              /\ heap[Row(r)].rec.sha \in DOMAIN mCommitsMap
              /\ mCommitsMap[heap[Row(r)].rec.sha] = Row(r)

-----------------------------------------------------------------------------
\* C23: insertReference during a bulk load for an identifier that has no
\* record changes nothing in the cache: no key is added to the identifier
\* index, nothing to the reference side-list.
C23_InsertReferenceUnknown ==
    [][(nOps' = nOps + 1 /\ last'.op = "insertReference" /\ mCacheLocked
            /\ ~HasRecord(last'.args[1]))
        => /\ fault' = "none"
           /\ UNCHANGED cacheVars]_vars

-----------------------------------------------------------------------------
\* C25: outside bulk load, with the untracked-file list as it was when
\* updateWipCommit ran, the log of the pseudo-commit at row 0 is "No local
\* changes" exactly when pendingLocalChanges() returns true, and "Local
\* changes" exactly when it returns false.
C25_LogAgrees ==
    (IsQuery("pendingLocalChanges") /\ ~mCacheLocked /\ fault = "none" /\ 0 \in RowsOf(ZERO_SHA)) =>
        /\ heap[Row(0)].rec.log \in {NoLocalChanges, LocalChanges}
        /\ (heap[Row(0)].rec.log = NoLocalChanges) <=> (last.ret = TRUE)
        /\ (heap[Row(0)].rec.log = LocalChanges) <=> (last.ret = FALSE)

-----------------------------------------------------------------------------
\* C24: getCommitInfoByField, updateLanes and updateWipCommit never
\* dereference an empty slot of the position index and never touch a row
\* past its end.
C24_NoEmptySlotAccess ==
    last.op \in {"getCommitInfoByField", "updateLanes", "updateWipCommit"} =>
        fault \notin {"null_dereference", "iterator_out_of_range", "index_out_of_range"}

-----------------------------------------------------------------------------
\* C21: for every commit handed to the lane computation the engine is called
\* in this order: the fork/discontinuity test; changeActiveLane on a
\* discontinuity; setFork on a fork; setMerge(parents) with more than one
\* parent; setInitial with no parent; the snapshot getLanes; then, after the
\* snapshot, nextParent(first parent or empty), afterMerge with more than
\* one parent, afterFork on a fork, afterBranch when the engine reports a
\* branch.  All calls for one commit are over before the first call for the
\* next commit.

\* the snapshot and the engine the calls give when made in that order
C21_Ordered(L, c) ==
    LET fork == LanesIsFork(L, c.sha)
        Change(E) == IF LanesIsDiscontinuity(L, c.sha) THEN LanesChangeActiveLane(E, c.sha) ELSE E
        Fork(E) == IF fork THEN LanesSetFork(E, c.sha) ELSE E
        Merged(E) == IF Len(c.parents) > 1 THEN LanesSetMerge(E, c.parents) ELSE E
        Initial(E) == IF Len(c.parents) = 0 THEN LanesSetInitial(E) ELSE E
        Next1(E) == LanesNextParent(E, IF Len(c.parents) = 0 THEN EmptyString ELSE c.parents[1])
        AfterMerge(E) == IF Len(c.parents) > 1 THEN LanesAfterMerge(E) ELSE E
        AfterFork(E) == IF fork THEN LanesAfterFork(E) ELSE E
        AfterBranch(E) == IF LanesIsBranch(E) THEN LanesAfterBranch(E) ELSE E
        After(E) == [lanes |-> getLanes(E),
                     engine |-> AfterBranch(AfterFork(AfterMerge(Next1(E))))]
    IN After(Initial(Merged(Fork(Change(L)))))

\* the engine after the commits of recs went through it one after the other
RECURSIVE C21_EngineAfter(_, _)
C21_EngineAfter(L, recs) ==
    IF recs = <<>> THEN L
    ELSE C21_EngineAfter(C21_Ordered(L, Head(recs)).engine, Tail(recs))

\* the rows updateLanes computes, in row order
C21_Recomputed == SelectSeq(mCommits, LAMBDA p : p # mCommits[1])

C21_Records == [k \in 1..Len(C21_Recomputed) |-> heap[C21_Recomputed[k]].rec]

\* a call of op returned in this step
C21_Returns(op) ==
    nOps' = nOps + 1 /\ last'.kind = "call" /\ last'.op = op /\ fault' = "none"

\* a step in which the calls for a commit begin
C21_Begins ==
    \/ \E t \in Threads : ~InLanes(t) /\ InLanes(t)'
    \/ /\ \E op \in {"insertCommitInfo", "commit", "updateWipCommit", "updateLanes"} :
             C21_Returns(op)
       /\ mLanes' # mLanes
       /\ \A t \in Threads : InLanes(t) => InLanes(t)'

\* insertCommitInfo in one step makes its calls in the order of C21
C21_InsertOrdered ==
    [][(C21_Returns("insertCommitInfo") /\ pc' = pc /\ mCacheLocked
            /\ last'.args[1].sha \notin DOMAIN mCommitsMap)
        => /\ mLanes' = C21_Ordered(mLanes, last'.args[1]).engine
           /\ heap'[mCommitsMap'[last'.args[1].sha]].rec.lanes
                 = C21_Ordered(mLanes, last'.args[1]).lanes]_vars

\* commit makes its calls in the order of C21
C21_CommitOrdered ==
    [][C21_Returns("commit")
        => /\ mLanes' = C21_Ordered(mLanes, last'.args[1]).engine
           /\ heap'[mCommits'[2]].rec.lanes = C21_Ordered(mLanes, last'.args[1]).lanes]_vars

\* updateWipCommit makes its calls in the order of C21, on a fresh engine
C21_WipOrdered ==
    [][C21_Returns("updateWipCommit")
        => /\ mLanes' = C21_Ordered(LanesInit(ZERO_SHA), heap'[mCommits'[1]].rec).engine
           /\ heap'[mCommits'[1]].rec.lanes
                 = C21_Ordered(LanesInit(ZERO_SHA), heap'[mCommits'[1]].rec).lanes]_vars

\* updateLanes makes the calls of C21 for one row after the other
C21_UpdateOrdered ==
    [][C21_Returns("updateLanes")
        => /\ mLanes' = C21_EngineAfter(mLanes, C21_Records)
           /\ \A k \in 1..Len(C21_Recomputed) :
                 heap'[C21_Recomputed[k]].rec.lanes
                    = C21_Ordered(C21_EngineAfter(mLanes, SubSeq(C21_Records, 1, k - 1)),
                                  C21_Records[k]).lanes]_vars

\* no commit has calls outstanding when the calls for another commit begin
C21_OneAtATime == [][C21_Begins => \A t \in Threads : ~InLanes(t)]_vars

\* C21: the engine calls for every commit come in the stated order, the
\* snapshot between setInitial and nextParent, and the calls for one commit
\* are over before the first call for the next commit.
C21_LaneCallOrder ==
    /\ C21_InsertOrdered
    /\ C21_CommitOrdered
    /\ C21_WipOrdered
    /\ C21_UpdateOrdered
    /\ C21_OneAtATime

====
